---- MODULE Spec2Model ----
(***************************************************************************)
(* ArchLens: the diagram parsing and architecture-inference engine.        *)
(*                                                                         *)
(* The repository holds several copies of the engine.  Each copy is        *)
(* modelled under the name it has in the source:                           *)
(*   - DrawIOParser (backend/src/utils/xml_parser.py), used by the         *)
(*     background processor (backend/src/handlers/processor.py) and by     *)
(*     the mock server (backend/mock_server.py);                           *)
(*   - parse_uploaded_xml / identify_aws_service_type                      *)
(*     (backend_clean/lightweight_handler.py);                             *)
(*   - parse_drawio_xml / identify_aws_service                             *)
(*     (backend_clean/lightweight_processor.py).                           *)
(*                                                                         *)
(* Text is modelled by TLA+ strings; Python's str.lower and the substring  *)
(* test `k in s` are computed character by character.                      *)
(***************************************************************************)
EXTENDS Integers, Sequences, FiniteSets, TLC

\* Python's None, and the value of an XML attribute that is not present
\* (Element.get(name) returns None for it).
None == "<None>"

\* ------------------------------------------------------------------------
\* Text
\* ------------------------------------------------------------------------

\* str.lower on one character (the labels of the model are ASCII, but for
\* the pattern "λ" of DrawIOParser, which str.lower leaves as it is).
LowerChar(c) ==
  CASE c = "A" -> "a" [] c = "B" -> "b" [] c = "C" -> "c" [] c = "D" -> "d"
    [] c = "E" -> "e" [] c = "F" -> "f" [] c = "G" -> "g" [] c = "H" -> "h"
    [] c = "I" -> "i" [] c = "J" -> "j" [] c = "K" -> "k" [] c = "L" -> "l"
    [] c = "M" -> "m" [] c = "N" -> "n" [] c = "O" -> "o" [] c = "P" -> "p"
    [] c = "Q" -> "q" [] c = "R" -> "r" [] c = "S" -> "s" [] c = "T" -> "t"
    [] c = "U" -> "u" [] c = "V" -> "v" [] c = "W" -> "w" [] c = "X" -> "x"
    [] c = "Y" -> "y" [] c = "Z" -> "z" [] OTHER -> c

RECURSIVE LowerFrom(_, _)
LowerFrom(s, i) ==
  IF i > Len(s) THEN "" ELSE LowerChar(SubSeq(s, i, i)) \o LowerFrom(s, i + 1)

\* s.lower()
Lower(s) == LowerFrom(s, 1)

\* Python's `k in s` for strings: k occurs in s as a contiguous substring.
Contains(s, k) ==
  \E i \in 1..(Len(s) - Len(k) + 1) : SubSeq(s, i, i + Len(k) - 1) = k

\* Python's s.strip() for the blanks of the model's labels.
RECURSIVE LStrip(_)
LStrip(s) ==
  IF Len(s) > 0 /\ SubSeq(s, 1, 1) = " " THEN LStrip(SubSeq(s, 2, Len(s))) ELSE s

RECURSIVE RStrip(_)
RStrip(s) ==
  IF Len(s) > 0 /\ SubSeq(s, Len(s), Len(s)) = " "
  THEN RStrip(SubSeq(s, 1, Len(s) - 1)) ELSE s

Strip(s) == RStrip(LStrip(s))

\* ------------------------------------------------------------------------
\* Service Classifier
\* ------------------------------------------------------------------------

\* The if/elif chain of identify_aws_service_type, in source order: one entry per
\* branch, the branch's keyword list and the kind it returns.
HandlerKeywordTable ==
  << [kind |-> "EC2", keywords |-> <<"ec2", "instance", "server", "virtual machine", "vm">>],
     [kind |-> "Lambda", keywords |-> <<"lambda", "function", "serverless">>],
     [kind |-> "ECS", keywords |-> <<"ecs", "container service", "docker">>],
     [kind |-> "EKS", keywords |-> <<"eks", "kubernetes", "k8s">>],
     [kind |-> "Fargate", keywords |-> <<"fargate">>],
     [kind |-> "AWS Batch", keywords |-> <<"batch">>],
     [kind |-> "Lightsail", keywords |-> <<"lightsail">>],
     [kind |-> "S3", keywords |-> <<"s3", "bucket", "object storage">>],
     [kind |-> "EBS", keywords |-> <<"ebs", "elastic block">>],
     [kind |-> "EFS", keywords |-> <<"efs", "elastic file">>],
     [kind |-> "FSx", keywords |-> <<"fsx">>],
     [kind |-> "S3 Glacier", keywords |-> <<"glacier", "archive">>],
     [kind |-> "Storage Gateway", keywords |-> <<"storage gateway">>],
     [kind |-> "RDS", keywords |-> <<"rds", "relational database", "mysql", "postgres", "oracle", "sql server">>],
     [kind |-> "DynamoDB", keywords |-> <<"dynamodb", "nosql", "document db">>],
     [kind |-> "Aurora", keywords |-> <<"aurora">>],
     [kind |-> "Redshift", keywords |-> <<"redshift", "data warehouse">>],
     [kind |-> "DocumentDB", keywords |-> <<"documentdb", "mongodb">>],
     [kind |-> "Neptune", keywords |-> <<"neptune", "graph">>],
     [kind |-> "ElastiCache", keywords |-> <<"elasticache", "redis", "memcached">>],
     [kind |-> "VPC", keywords |-> <<"vpc", "virtual private cloud">>],
     [kind |-> "Subnet", keywords |-> <<"subnet", "private subnet", "public subnet">>],
     [kind |-> "Load Balancer", keywords |-> <<"load balancer", "alb", "elb", "nlb", "application load balancer", "network load balancer">>],
     [kind |-> "CloudFront", keywords |-> <<"cloudfront", "cdn", "content delivery">>],
     [kind |-> "API Gateway", keywords |-> <<"api gateway", "rest api", "graphql">>],
     [kind |-> "Route 53", keywords |-> <<"route 53", "dns", "domain">>],
     [kind |-> "VPC Endpoint", keywords |-> <<"vpc endpoint", "endpoint">>],
     [kind |-> "NAT Gateway", keywords |-> <<"nat gateway", "nat">>],
     [kind |-> "Internet Gateway", keywords |-> <<"internet gateway", "igw">>],
     [kind |-> "Transit Gateway", keywords |-> <<"transit gateway">>],
     [kind |-> "Direct Connect", keywords |-> <<"direct connect">>],
     [kind |-> "IAM", keywords |-> <<"iam", "identity", "access management", "role", "policy", "user">>],
     [kind |-> "Security Group", keywords |-> <<"security group", "sg">>],
     [kind |-> "Network ACL", keywords |-> <<"nacl", "network acl">>],
     [kind |-> "KMS", keywords |-> <<"kms", "key management">>],
     [kind |-> "Secrets Manager", keywords |-> <<"secrets manager", "secret">>],
     [kind |-> "Certificate Manager", keywords |-> <<"certificate manager", "acm", "ssl", "tls">>],
     [kind |-> "WAF", keywords |-> <<"waf", "web application firewall">>],
     [kind |-> "Shield", keywords |-> <<"shield", "ddos">>],
     [kind |-> "GuardDuty", keywords |-> <<"guardduty">>],
     [kind |-> "Security Hub", keywords |-> <<"security hub">>],
     [kind |-> "Inspector", keywords |-> <<"inspector">>],
     [kind |-> "Macie", keywords |-> <<"macie">>],
     [kind |-> "CloudWatch", keywords |-> <<"cloudwatch", "monitoring", "metrics", "logs">>],
     [kind |-> "CloudTrail", keywords |-> <<"cloudtrail", "audit", "logging">>],
     [kind |-> "Config", keywords |-> <<"config", "compliance">>],
     [kind |-> "Systems Manager", keywords |-> <<"systems manager", "ssm">>],
     [kind |-> "X-Ray", keywords |-> <<"x-ray", "tracing">>],
     [kind |-> "CloudFormation", keywords |-> <<"cloudformation", "cfn", "stack">>],
     [kind |-> "SNS", keywords |-> <<"sns", "notification">>],
     [kind |-> "SQS", keywords |-> <<"sqs", "queue">>],
     [kind |-> "EventBridge", keywords |-> <<"eventbridge", "event bus">>],
     [kind |-> "Step Functions", keywords |-> <<"step functions", "workflow">>],
     [kind |-> "Kinesis", keywords |-> <<"kinesis", "streaming">>],
     [kind |-> "SES", keywords |-> <<"ses", "email">>],
     [kind |-> "Athena", keywords |-> <<"athena", "query">>],
     [kind |-> "Glue", keywords |-> <<"glue", "etl">>],
     [kind |-> "EMR", keywords |-> <<"emr", "hadoop", "spark">>],
     [kind |-> "SageMaker", keywords |-> <<"sagemaker", "machine learning", "ml">>],
     [kind |-> "Bedrock", keywords |-> <<"bedrock", "ai">>] >>

\* The if/elif chain of identify_aws_service (lightweight_processor), in source order.
ProcessorKeywordTable ==
  << [kind |-> "EC2", keywords |-> <<"ec2", "instance", "server", "virtual machine", "vm">>],
     [kind |-> "Lambda", keywords |-> <<"lambda", "function", "serverless">>],
     [kind |-> "ECS", keywords |-> <<"ecs", "container service", "fargate">>],
     [kind |-> "EKS", keywords |-> <<"eks", "kubernetes", "k8s">>],
     [kind |-> "Batch", keywords |-> <<"batch", "job queue">>],
     [kind |-> "Lightsail", keywords |-> <<"lightsail", "simple compute">>],
     [kind |-> "App Runner", keywords |-> <<"app runner", "apprunner">>],
     [kind |-> "S3", keywords |-> <<"s3", "bucket", "object storage">>],
     [kind |-> "EBS", keywords |-> <<"ebs", "elastic block", "volume">>],
     [kind |-> "EFS", keywords |-> <<"efs", "elastic file", "nfs">>],
     [kind |-> "FSx", keywords |-> <<"fsx", "lustre", "windows file">>],
     [kind |-> "Storage Gateway", keywords |-> <<"storage gateway", "hybrid storage">>],
     [kind |-> "AWS Backup", keywords |-> <<"backup", "aws backup">>],
     [kind |-> "DataSync", keywords |-> <<"datasync", "data sync">>],
     [kind |-> "RDS", keywords |-> <<"rds", "relational database", "mysql", "postgres", "oracle", "sql server">>],
     [kind |-> "DynamoDB", keywords |-> <<"dynamodb", "dynamo", "nosql">>],
     [kind |-> "Aurora", keywords |-> <<"aurora", "aurora serverless">>],
     [kind |-> "Redshift", keywords |-> <<"redshift", "data warehouse">>],
     [kind |-> "ElastiCache", keywords |-> <<"elasticache", "redis", "memcached">>],
     [kind |-> "DocumentDB", keywords |-> <<"documentdb", "mongodb">>],
     [kind |-> "Neptune", keywords |-> <<"neptune", "graph database">>],
     [kind |-> "Timestream", keywords |-> <<"timestream", "time series">>],
     [kind |-> "Keyspaces", keywords |-> <<"keyspaces", "cassandra">>],
     [kind |-> "VPC", keywords |-> <<"vpc", "virtual private cloud">>],
     [kind |-> "Load Balancer", keywords |-> <<"load balancer", "alb", "elb", "nlb", "application load balancer", "network load balancer">>],
     [kind |-> "CloudFront", keywords |-> <<"cloudfront", "cdn", "content delivery">>],
     [kind |-> "API Gateway", keywords |-> <<"api gateway", "api gw", "rest api", "graphql">>],
     [kind |-> "Route 53", keywords |-> <<"route 53", "route53", "dns", "domain">>],
     [kind |-> "Direct Connect", keywords |-> <<"direct connect", "directconnect", "dx">>],
     [kind |-> "VPN", keywords |-> <<"vpn", "site-to-site", "client vpn">>],
     [kind |-> "Transit Gateway", keywords |-> <<"transit gateway", "tgw">>],
     [kind |-> "NAT Gateway", keywords |-> <<"nat gateway", "nat instance">>],
     [kind |-> "Internet Gateway", keywords |-> <<"internet gateway", "igw">>],
     [kind |-> "IAM", keywords |-> <<"iam", "identity", "role", "policy", "user">>],
     [kind |-> "Cognito", keywords |-> <<"cognito", "user pool", "identity pool">>],
     [kind |-> "KMS", keywords |-> <<"kms", "key management", "encryption key">>],
     [kind |-> "Certificate Manager", keywords |-> <<"certificate manager", "acm", "ssl", "tls">>],
     [kind |-> "Secrets Manager", keywords |-> <<"secrets manager", "secret">>],
     [kind |-> "Parameter Store", keywords |-> <<"parameter store", "ssm parameter">>],
     [kind |-> "WAF", keywords |-> <<"waf", "web application firewall">>],
     [kind |-> "Shield", keywords |-> <<"shield", "ddos protection">>],
     [kind |-> "GuardDuty", keywords |-> <<"guardduty", "threat detection">>],
     [kind |-> "Security Hub", keywords |-> <<"security hub", "securityhub">>],
     [kind |-> "Inspector", keywords |-> <<"inspector", "vulnerability assessment">>],
     [kind |-> "Macie", keywords |-> <<"macie", "data discovery">>],
     [kind |-> "Config", keywords |-> <<"config", "compliance", "configuration">>],
     [kind |-> "CloudTrail", keywords |-> <<"cloudtrail", "audit log", "api logging">>],
     [kind |-> "EMR", keywords |-> <<"emr", "hadoop", "spark">>],
     [kind |-> "Glue", keywords |-> <<"glue", "etl", "data catalog">>],
     [kind |-> "Athena", keywords |-> <<"athena", "query service">>],
     [kind |-> "QuickSight", keywords |-> <<"quicksight", "business intelligence", "bi">>],
     [kind |-> "Kinesis", keywords |-> <<"kinesis", "streaming", "data stream">>],
     [kind |-> "OpenSearch", keywords |-> <<"opensearch", "elasticsearch">>],
     [kind |-> "MSK", keywords |-> <<"msk", "kafka", "managed kafka">>],
     [kind |-> "SQS", keywords |-> <<"sqs", "queue", "message queue">>],
     [kind |-> "SNS", keywords |-> <<"sns", "notification", "topic">>],
     [kind |-> "EventBridge", keywords |-> <<"eventbridge", "event bridge", "event bus">>],
     [kind |-> "Step Functions", keywords |-> <<"step functions", "state machine", "workflow">>],
     [kind |-> "Amazon MQ", keywords |-> <<"mq", "message broker", "activemq">>],
     [kind |-> "CloudWatch", keywords |-> <<"cloudwatch", "monitoring", "metrics", "logs">>],
     [kind |-> "CloudFormation", keywords |-> <<"cloudformation", "stack", "template">>],
     [kind |-> "Systems Manager", keywords |-> <<"systems manager", "ssm", "session manager">>],
     [kind |-> "Organizations", keywords |-> <<"organizations", "account management">>],
     [kind |-> "Control Tower", keywords |-> <<"control tower", "landing zone">>],
     [kind |-> "Service Catalog", keywords |-> <<"service catalog", "product portfolio">>],
     [kind |-> "Trusted Advisor", keywords |-> <<"trusted advisor", "cost optimization">>],
     [kind |-> "CodeBuild", keywords |-> <<"codebuild", "build service">>],
     [kind |-> "CodeDeploy", keywords |-> <<"codedeploy", "deployment">>],
     [kind |-> "CodePipeline", keywords |-> <<"codepipeline", "ci/cd", "pipeline">>],
     [kind |-> "CodeCommit", keywords |-> <<"codecommit", "git repository">>],
     [kind |-> "SageMaker", keywords |-> <<"sagemaker", "machine learning", "ml">>],
     [kind |-> "Bedrock", keywords |-> <<"bedrock", "generative ai", "foundation model">>],
     [kind |-> "Rekognition", keywords |-> <<"rekognition", "image analysis">>],
     [kind |-> "Comprehend", keywords |-> <<"comprehend", "nlp", "text analysis">>],
     [kind |-> "Textract", keywords |-> <<"textract", "document analysis">>],
     [kind |-> "Polly", keywords |-> <<"polly", "text to speech">>],
     [kind |-> "Transcribe", keywords |-> <<"transcribe", "speech to text">>],
     [kind |-> "Translate", keywords |-> <<"translate", "language translation">>],
     [kind |-> "IoT Core", keywords |-> <<"iot core", "internet of things">>],
     [kind |-> "IoT Device Management", keywords |-> <<"iot device management", "device fleet">>],
     [kind |-> "IoT Analytics", keywords |-> <<"iot analytics", "iot data">>] >>

\* DrawIOParser.aws_services: service key -> label patterns, in insertion order.
aws_services ==
  << [kind |-> "ec2", keywords |-> <<"EC2", "Amazon EC2", "Elastic Compute">>],
     [kind |-> "s3", keywords |-> <<"S3", "Amazon S3", "Simple Storage">>],
     [kind |-> "lambda", keywords |-> <<"Lambda", "AWS Lambda", "λ">>],
     [kind |-> "rds", keywords |-> <<"RDS", "Amazon RDS", "Relational Database">>],
     [kind |-> "apigateway", keywords |-> <<"API Gateway", "Amazon API Gateway">>],
     [kind |-> "cloudfront", keywords |-> <<"CloudFront", "Amazon CloudFront">>],
     [kind |-> "route53", keywords |-> <<"Route 53", "Amazon Route 53">>],
     [kind |-> "elb", keywords |-> <<"ELB", "Load Balancer", "Application Load Balancer", "Network Load Balancer">>],
     [kind |-> "vpc", keywords |-> <<"VPC", "Virtual Private Cloud">>],
     [kind |-> "iam", keywords |-> <<"IAM", "Identity and Access Management">>],
     [kind |-> "cloudwatch", keywords |-> <<"CloudWatch", "Amazon CloudWatch">>],
     [kind |-> "sns", keywords |-> <<"SNS", "Simple Notification Service">>],
     [kind |-> "sqs", keywords |-> <<"SQS", "Simple Queue Service">>],
     [kind |-> "dynamodb", keywords |-> <<"DynamoDB", "Amazon DynamoDB">>],
     [kind |-> "kinesis", keywords |-> <<"Kinesis", "Amazon Kinesis">>],
     [kind |-> "elasticsearch", keywords |-> <<"Elasticsearch", "Amazon Elasticsearch", "OpenSearch">>],
     [kind |-> "redshift", keywords |-> <<"Redshift", "Amazon Redshift">>],
     [kind |-> "ecs", keywords |-> <<"ECS", "Elastic Container Service">>],
     [kind |-> "eks", keywords |-> <<"EKS", "Elastic Kubernetes Service">>],
     [kind |-> "fargate", keywords |-> <<"Fargate", "AWS Fargate">>],
     [kind |-> "secretsmanager", keywords |-> <<"Secrets Manager", "AWS Secrets Manager">>],
     [kind |-> "kms", keywords |-> <<"KMS", "Key Management Service">>],
     [kind |-> "waf", keywords |-> <<"WAF", "Web Application Firewall">>],
     [kind |-> "shield", keywords |-> <<"Shield", "AWS Shield">>],
     [kind |-> "cognito", keywords |-> <<"Cognito", "Amazon Cognito">>],
     [kind |-> "acm", keywords |-> <<"ACM", "Certificate Manager">>] >>

\* any(keyword in value_lower for keyword in [...])
AnyKeyword(value_lower, keywords) ==
  \E j \in 1..Len(keywords) : Contains(value_lower, keywords[j])

\* The kind of the first branch of an if/elif chain whose keyword list
\* matches, None when the chain falls through to its last two branches.
RECURSIVE FirstMatch(_, _, _)
FirstMatch(table, value_lower, i) ==
  IF i > Len(table) THEN None
  ELSE IF AnyKeyword(value_lower, table[i].keywords) THEN table[i].kind
  ELSE FirstMatch(table, value_lower, i + 1)

\* identify_aws_service_type testing the style hint as written, without
\* lower-casing it first.
identify_aws_service_type_RawStyle(value, style) ==
  LET value_lower == Lower(value)
      matched == FirstMatch(HandlerKeywordTable, value_lower, 1)
  IN  IF matched # None THEN matched
      ELSE IF Contains(style, "aws") \/ Contains(value_lower, "amazon")
      THEN "AWS Service"
      ELSE "Unknown"

\* lightweight_handler.identify_aws_service_type(value, style)
identify_aws_service_type(value, style) ==
  LET value_lower == Lower(value)
      style_lower == Lower(style)
      matched == FirstMatch(HandlerKeywordTable, value_lower, 1)
  IN  IF matched # None THEN matched
      ELSE IF Contains(style_lower, "aws") \/ Contains(value_lower, "amazon")
      THEN "AWS Service"
      ELSE "Unknown"

\* lightweight_processor.identify_aws_service(value, style)
identify_aws_service(value, style) ==
  LET value_lower == Lower(value)
      style_lower == Lower(style)
      matched == FirstMatch(ProcessorKeywordTable, value_lower, 1)
  IN  IF matched # None THEN matched
      ELSE IF Contains(style_lower, "aws") \/ Contains(value_lower, "amazon")
      THEN "AWS Service"
      ELSE "Unknown"

\* for pattern in patterns: if pattern.lower() in text_lower
AnyPattern(text_lower, patterns) ==
  \E j \in 1..Len(patterns) : Contains(text_lower, Lower(patterns[j]))

RECURSIVE FirstService(_, _)
FirstService(text_lower, i) ==
  IF i > Len(aws_services) THEN None
  ELSE IF AnyPattern(text_lower, aws_services[i].keywords) THEN aws_services[i].kind
  ELSE FirstService(text_lower, i + 1)

\* DrawIOParser._identify_aws_service(text): the key of the first entry of
\* aws_services one of whose patterns occurs in the text, or None.
_identify_aws_service(text) == FirstService(Lower(text), 1)

\* ------------------------------------------------------------------------
\* Diagram documents
\* ------------------------------------------------------------------------

\* A document that is not well-formed XML: ET.fromstring raises ParseError.
Malformed == [wellformed |-> FALSE, diagrams |-> <<>>, cells |-> <<>>]

\* One mxCell element: its attributes (None when absent) and its mxGeometry
\* child (None when absent, else the text of its x attribute).
Cell(id, value, cellStyle, source, target, edge, geometry) ==
  [id |-> id, value |-> value, style |-> cellStyle, source |-> source,
   target |-> target, edge |-> edge, geometry |-> geometry]

Shape(id, value) == Cell(id, value, None, None, None, None, None)

Connector(id, value, source, target, edge) ==
  Cell(id, value, "endArrow=classic", source, target, edge, None)

\* The mxCell elements documents are made of: shapes with the reserved ids,
\* with and without a label, with labels that name a service and labels that
\* name none, two shapes sharing an id, a shape without id, shapes with a
\* geometry, and connectors with and without the edge marker, with a missing
\* or empty end, with ends that name no shape, and with a label of their own.
Cells ==
  { Shape("0", "Client"),
    Shape("1", "EC2 Instance"),
    Shape("2", "EC2 Instance"),
    Shape("2", "Client"),
    Shape("3", "RDS Database"),
    Shape(None, "S3 Bucket"),
    Shape("3", ""),
    Cell("5", "Client", "shape=mxgraph.aws4.resourceIcon", None, None, None, "40"),
    Cell("5", "EC2 Instance", "rounded=1", None, None, None, "abc"),
    Connector("e1", None, "2", "3", "1"),
    Connector("e2", None, "2", "9", None),
    Connector("e3", "S3 sync", "9", "3", "1"),
    Connector("e4", None, "2", None, "1"),
    Connector("e5", None, "", "3", "1") }

\* A cell without its source, target and edge attributes.
Unconnected(cell) == [cell EXCEPT !.source = None, !.target = None, !.edge = None]

\* The most shapes of a diagram given to the analyzer before one more is
\* added to it.
MaxNodes == 6

\* Labels of the shapes of those diagrams: a public-facing API (no security
\* relevant kind), a bucket (storage, security relevant), an identity role
\* (security relevant only) and a database (none of the three).
NodeLabels == {"Public API Gateway", "S3 Bucket", "IAM Role", "RDS Database"}

\* Labels of the public-facing shape added to a diagram: one of a kind that
\* is not security relevant, one of a security relevant kind, one that is
\* an unencrypted bucket as well.
PublicLabels == {"Public Load Balancer", "Public EC2 Instance", "Public S3 Bucket"}

\* The shape at position i of such a diagram; ids "0" and "1" are left to
\* the two container cells.
Node(i, text) == Shape(ToString(i + 1), text)

NodeCells ==
  {Node(i, text) : i \in 1..(MaxNodes + 1), text \in NodeLabels \cup PublicLabels}

\* The cells of the diagrams given to the narrator: a load balancer, an
\* instance, a database and an identity role, and connectors from the load
\* balancer to the instance, from the instance to the database and from
\* the instance back to the load balancer.
NarratedCells ==
  { Shape("2", "Application Load Balancer"),
    Shape("3", "EC2 Instance"),
    Shape("4", "RDS Database"),
    Shape("5", "IAM Role"),
    Connector("e1", None, "2", "3", "1"),
    Connector("e2", None, "3", "4", "1"),
    Connector("e3", None, "3", "2", "1") }

\* The most shapes of a diagram whose patterns are detected.
MaxPatternNodes == 4

\* Labels of the shapes of those diagrams, one for every kind a pattern
\* rule reads and one (a bucket) for a kind no rule reads.
PatternLabels ==
  << "Application Load Balancer", "EC2 Instance", "Lambda Function", "API Gateway",
     "Kinesis Stream", "SQS Queue", "CloudFront", "RDS Database", "DynamoDB Table",
     "Elasticsearch", "Redshift", "S3 Bucket" >>

PatternCells ==
  {Node(i, PatternLabels[k]) : i \in 1..(MaxPatternNodes + 1), k \in 1..Len(PatternLabels)}

\* The most shapes and the most connectors of a diagram whose data flow is
\* narrated.
MaxFlowNodes == 3
MaxEdges == 3

\* The label of the shape at position i of such a diagram: a load balancer,
\* an instance, a database, then instances.
FlowLabelAt(i) ==
  CASE i = 1 -> "Application Load Balancer"
    [] i = 3 -> "RDS Database"
    [] OTHER -> "EC2 Instance"

\* The ids a connector of a diagram of n shapes can name: the ids of the
\* shapes and "9", the id of no shape.
FlowEnds(n) == {ToString(i + 1) : i \in 1..n} \cup {"9"}

\* The connector from source to target; its id is made of the two.
FlowEdge(source, target) ==
  Connector("e" \o source \o "-" \o target, None, source, target, "1")

FlowEdgeCells ==
  {FlowEdge(s, t) : s \in FlowEnds(MaxFlowNodes + 1), t \in FlowEnds(MaxFlowNodes + 1)}

FlowCells ==
  {Node(i, FlowLabelAt(i)) : i \in 1..(MaxFlowNodes + 1)} \cup FlowEdgeCells

\* The cells the per-cell tables below are evaluated on.
TableCells ==
  Cells \cup {Unconnected(cell) : cell \in Cells} \cup NodeCells \cup NarratedCells
    \cup PatternCells \cup FlowCells

\* Element.get(name, default)
Get(attr, default) == IF attr = None THEN default ELSE attr

\* Python truthiness of a str-or-None.
Truthy(attr) == attr # None /\ attr # ""

\* float(text): the numbers of the model's geometries; any other text raises
\* ValueError.
IsFloat(text) == text \in {"0", "40", "120.5"}

\* ------------------------------------------------------------------------
\* Diagram Graph Extractor: DrawIOParser (backend/src/utils/xml_parser.py)
\* ------------------------------------------------------------------------

_is_security_relevant(service_type) ==
  service_type \in {"iam", "kms", "secretsmanager", "waf", "shield",
                    "cognito", "acm", "vpc", "s3", "ec2"}

\* _extract_diagram_info: the title is the name of the first diagram element
\* when that name is non-empty, else 'Unknown'.
_extract_diagram_info(doc) ==
  [title |-> IF Len(doc.diagrams) > 0 /\ Truthy(doc.diagrams[1])
             THEN doc.diagrams[1] ELSE "Unknown",
   pages |-> Len(doc.diagrams),
   total_elements |-> Len(doc.cells)]

\* The body of the loop of _extract_aws_services for one cell: the services
\* it appends (none or one).  The cell is skipped unless it has a value
\* attribute whose stripped text is non-empty and names a known service.
ServiceOfCell(cell) ==
  IF cell.value = None THEN <<>>
  ELSE LET value == Strip(cell.value)
           service_type == _identify_aws_service(value)
       IN  IF value = "" \/ service_type = None THEN <<>>
           ELSE << [id |-> cell.id,
                    type |-> service_type,
                    label |-> value,
                    position |-> IF cell.geometry = None THEN "default" ELSE cell.geometry,
                    style |-> Get(cell.style, ""),
                    security_relevant |-> _is_security_relevant(service_type)] >>

\* ServiceOfCell tabulated over the cells of the model (evaluated once).
ServiceOfCellTable == [cell \in TableCells |-> ServiceOfCell(cell)]

\* float(geometry.get('x', 0)) raises ValueError for a cell that becomes a
\* service and whose geometry is not a number.
GeometryRaises(cell) ==
  /\ ServiceOfCellTable[cell] # <<>>
  /\ cell.geometry # None
  /\ ~IsFloat(cell.geometry)

RECURSIVE _extract_aws_services(_, _)
_extract_aws_services(cells, i) ==
  IF i > Len(cells) THEN <<>>
  ELSE ServiceOfCellTable[cells[i]] \o _extract_aws_services(cells, i + 1)

\* The body of the loop of _extract_connections for one cell carrying an
\* edge attribute (root.findall('.//mxCell[@edge]')).
ConnectionOfCell(cell) ==
  IF cell.edge # None /\ Truthy(cell.source) /\ Truthy(cell.target)
  THEN << [id |-> cell.id, source |-> cell.source, target |-> cell.target,
           label |-> Strip(Get(cell.value, "")), style |-> Get(cell.style, "")] >>
  ELSE <<>>

RECURSIVE _extract_connections(_, _)
_extract_connections(cells, i) ==
  IF i > Len(cells) THEN <<>>
  ELSE ConnectionOfCell(cells[i]) \o _extract_connections(cells, i + 1)

\* Python's [x for x in seq if test(x)]; keep[k] is test(seq[k]).
RECURSIVE Filter(_, _, _)
Filter(seq, keep, i) ==
  IF i > Len(seq) THEN <<>>
  ELSE (IF keep[i] THEN <<seq[i]>> ELSE <<>>) \o Filter(seq, keep, i + 1)

IsPublicService(service) ==
  LET lbl == Lower(service.label)
  IN  Contains(lbl, "public") \/ Contains(lbl, "internet") \/ Contains(lbl, "external")

IsUnencryptedService(service) ==
  LET lbl == Lower(service.label)
  IN  service.type = "s3" /\ ~Contains(lbl, "private") /\ ~Contains(lbl, "encrypted")

IsSecurityRelevantService(service) == service.security_relevant

\* The analysis whose security_service_count is the number of all services,
\* the security_relevant filter dropped.
_analyze_security_configurations_CountingEveryService(services, connections) ==
  LET each == 1..Len(services)
  IN  [public_services |->
         Filter(services, [k \in each |-> IsPublicService(services[k])], 1),
       unencrypted_services |->
         Filter(services, [k \in each |-> IsUnencryptedService(services[k])], 1),
       security_service_count |-> Len(services)]

_analyze_security_configurations(services, connections) ==
  LET each == 1..Len(services)
  IN  [public_services |->
         Filter(services, [k \in each |-> IsPublicService(services[k])], 1),
       unencrypted_services |->
         Filter(services, [k \in each |-> IsUnencryptedService(services[k])], 1),
       security_service_count |->
         Len(Filter(services, [k \in each |-> IsSecurityRelevantService(services[k])], 1))]

\* DrawIOParser.parse(xml_content): the parsed data, or the ValueError it
\* raises (ParseError and every other exception are re-raised as ValueError).
DrawIOParser_parse(doc) ==
  IF ~doc.wellformed
  THEN [status |-> "raised", error |-> "ValueError: Invalid XML format"]
  ELSE IF \E i \in 1..Len(doc.cells) : GeometryRaises(doc.cells[i])
  THEN [status |-> "raised", error |-> "ValueError: Failed to parse diagram"]
  ELSE LET services == _extract_aws_services(doc.cells, 1)
           connections == _extract_connections(doc.cells, 1)
       IN  [status |-> "returned",
            diagram_info |-> _extract_diagram_info(doc),
            services |-> services,
            connections |-> connections,
            security_analysis |-> _analyze_security_configurations(services, connections),
            raw_elements |-> Len(doc.cells)]

\* ------------------------------------------------------------------------
\* Diagram Graph Extractor: parse_uploaded_xml (lightweight_handler.py) and
\* parse_drawio_xml (lightweight_processor.py)
\* ------------------------------------------------------------------------

\* The two reserved container ids: `cell_id not in ['0', '1']`.
ReservedIds == {"0", "1"}

\* The component the loop body appends for one cell (none or one); the two
\* copies differ in the classifier they call.
ComponentOfCell(cell, copy) ==
  LET value == Get(cell.value, "")
      cellStyle == Get(cell.style, "")
  IN  IF value # "" /\ cell.id \notin ReservedIds
      THEN << [id |-> cell.id, name |-> value,
               service_type |-> IF copy = "lightweight_handler"
                                THEN identify_aws_service_type(value, cellStyle)
                                ELSE identify_aws_service(value, cellStyle),
               style |-> cellStyle] >>
      ELSE <<>>

\* The connection the same loop body appends for that cell (none or one).
LinkOfCell(cell) ==
  IF Truthy(cell.source) /\ Truthy(cell.target)
  THEN << [source |-> cell.source, target |-> cell.target, type |-> "connection"] >>
  ELSE <<>>

\* ComponentOfCell tabulated over the cells of the model (evaluated once),
\* with the classifier of each copy.
UploadedComponentTable ==
  [cell \in TableCells |-> ComponentOfCell(cell, "lightweight_handler")]

DrawioComponentTable ==
  [cell \in TableCells |-> ComponentOfCell(cell, "lightweight_processor")]

RECURSIVE ExtractComponents(_, _, _)
ExtractComponents(cells, componentTable, i) ==
  IF i > Len(cells) THEN <<>>
  ELSE componentTable[cells[i]] \o ExtractComponents(cells, componentTable, i + 1)

RECURSIVE ExtractLinks(_, _)
ExtractLinks(cells, i) ==
  IF i > Len(cells) THEN <<>>
  ELSE LinkOfCell(cells[i]) \o ExtractLinks(cells, i + 1)

\* lightweight_handler.parse_uploaded_xml(xml_content).  Every exception is
\* caught: a malformed document yields an empty result carrying parse_error.
parse_uploaded_xml(doc) ==
  IF ~doc.wellformed
  THEN [status |-> "returned", components |-> <<>>, connections |-> <<>>,
        component_count |-> 0, connection_count |-> 0,
        has_content |-> FALSE, parse_error |-> "ParseError"]
  ELSE LET components == ExtractComponents(doc.cells, UploadedComponentTable, 1)
           connections == ExtractLinks(doc.cells, 1)
       IN  [status |-> "returned", components |-> components,
            connections |-> connections,
            component_count |-> Len(components),
            connection_count |-> Len(connections),
            has_content |-> Len(components) > 0, parse_error |-> None]

\* lightweight_processor.parse_drawio_xml(xml_content)
parse_drawio_xml(doc) ==
  IF ~doc.wellformed
  THEN [status |-> "returned", components |-> <<>>, connections |-> <<>>,
        component_count |-> 0, connection_count |-> 0, parse_error |-> "ParseError"]
  ELSE LET components == ExtractComponents(doc.cells, DrawioComponentTable, 1)
           connections == ExtractLinks(doc.cells, 1)
       IN  [status |-> "returned", components |-> components,
            connections |-> connections,
            component_count |-> Len(components),
            connection_count |-> Len(connections), parse_error |-> None]

\* ------------------------------------------------------------------------
\* Architecture Narrator: DrawIOParser.generate_architecture_description
\* ------------------------------------------------------------------------

UpperChar(c) ==
  CASE c = "a" -> "A" [] c = "b" -> "B" [] c = "c" -> "C" [] c = "d" -> "D"
    [] c = "e" -> "E" [] c = "f" -> "F" [] c = "g" -> "G" [] c = "h" -> "H"
    [] c = "i" -> "I" [] c = "j" -> "J" [] c = "k" -> "K" [] c = "l" -> "L"
    [] c = "m" -> "M" [] c = "n" -> "N" [] c = "o" -> "O" [] c = "p" -> "P"
    [] c = "q" -> "Q" [] c = "r" -> "R" [] c = "s" -> "S" [] c = "t" -> "T"
    [] c = "u" -> "U" [] c = "v" -> "V" [] c = "w" -> "W" [] c = "x" -> "X"
    [] c = "y" -> "Y" [] c = "z" -> "Z" [] OTHER -> c

RECURSIVE UpperFrom(_, _)
UpperFrom(s, i) ==
  IF i > Len(s) THEN "" ELSE UpperChar(SubSeq(s, i, i)) \o UpperFrom(s, i + 1)

\* s.upper()
Upper(s) == UpperFrom(s, 1)

\* sep.join(parts)
RECURSIVE Join(_, _)
Join(parts, sep) ==
  IF Len(parts) = 0 THEN ""
  ELSE IF Len(parts) = 1 THEN parts[1]
  ELSE parts[1] \o sep \o Join(Tail(parts), sep)

\* s.count(sub) for a sub that cannot overlap itself (no proper prefix of it
\* is a suffix of it, as for "service"): every occurrence is counted.
Count(s, sub) ==
  Cardinality({i \in 1..(Len(s) - Len(sub) + 1) : SubSeq(s, i, i + Len(sub) - 1) = sub})

display_names ==
  [ec2 |-> "EC2 instance", s3 |-> "S3 bucket", lambda |-> "Lambda function",
   rds |-> "RDS database", apigateway |-> "API Gateway",
   cloudfront |-> "CloudFront distribution", route53 |-> "Route 53 DNS",
   elb |-> "Load Balancer", vpc |-> "VPC network", iam |-> "IAM service",
   cloudwatch |-> "CloudWatch monitoring", sns |-> "SNS notification service",
   sqs |-> "SQS queue", dynamodb |-> "DynamoDB table", kinesis |-> "Kinesis stream",
   elasticsearch |-> "Elasticsearch/OpenSearch cluster",
   redshift |-> "Redshift data warehouse", ecs |-> "ECS container service",
   eks |-> "EKS Kubernetes cluster", fargate |-> "Fargate container",
   secretsmanager |-> "Secrets Manager", kms |-> "KMS encryption service",
   waf |-> "WAF firewall", shield |-> "Shield DDoS protection",
   cognito |-> "Cognito identity service", acm |-> "Certificate Manager"]

_get_service_display_name(service_type) ==
  IF service_type \in DOMAIN display_names THEN display_names[service_type]
  ELSE Upper(service_type) \o " service"

\* The types of the services in first-seen order (service_types of the
\* grouping loop).
RECURSIVE FirstSeenTypes(_, _, _)
FirstSeenTypes(services, i, seen) ==
  IF i > Len(services) THEN <<>>
  ELSE IF services[i].type \in seen THEN FirstSeenTypes(services, i + 1, seen)
  ELSE <<services[i].type>>
         \o FirstSeenTypes(services, i + 1, seen \cup {services[i].type})

\* service_counts[service_type]
CountOfType(services, service_type) ==
  Cardinality({i \in 1..Len(services) : services[i].type = service_type})

TypesPresent(services) == {services[i].type : i \in 1..Len(services)}

\* The "N name" / "N name instances" phrase of one type.
BreakdownItem(services, service_type) ==
  LET count == CountOfType(services, service_type)
      service_name == _get_service_display_name(service_type)
  IN  IF count = 1 THEN "1 " \o service_name
      ELSE ToString(count) \o " " \o service_name \o " instances"

\* The service breakdown sentence.
ServiceBreakdown(services) ==
  LET service_types == FirstSeenTypes(services, 1, {})
      service_list == [k \in 1..Len(service_types) |->
                         BreakdownItem(services, service_types[k])]
      n == Len(service_list)
      services_text == IF n > 1
                       THEN Join(SubSeq(service_list, 1, n - 1), ", ")
                              \o ", and " \o service_list[n]
                       ELSE service_list[1]
  IN  "The architecture includes: " \o services_text \o "."

\* The detection that stops at the first rule that holds.
_identify_architecture_patterns_FirstMatchOnly(services, connections) ==
  LET service_types == TypesPresent(services)
      lambda_count == CountOfType(services, "lambda")
  IN  IF "elb" \in service_types /\ "ec2" \in service_types
      THEN <<"Load-balanced web application">>
      ELSE IF "lambda" \in service_types /\ "apigateway" \in service_types
      THEN <<"Serverless API">>
      ELSE IF lambda_count > 2 THEN <<"Microservices architecture">>
      ELSE IF "kinesis" \in service_types \/ "sqs" \in service_types
      THEN <<"Event-driven processing">>
      ELSE IF "cloudfront" \in service_types THEN <<"Content delivery network">>
      ELSE IF {"rds", "dynamodb", "elasticsearch", "redshift"} \cap service_types # {}
      THEN <<"Multi-tier data storage">>
      ELSE <<>>

_identify_architecture_patterns(services, connections) ==
  LET service_types == TypesPresent(services)
      lambda_count == CountOfType(services, "lambda")
  IN  (IF "elb" \in service_types /\ "ec2" \in service_types
       THEN <<"Load-balanced web application">> ELSE <<>>)
      \o (IF "lambda" \in service_types /\ "apigateway" \in service_types
          THEN <<"Serverless API">> ELSE <<>>)
      \o (IF lambda_count > 2 THEN <<"Microservices architecture">> ELSE <<>>)
      \o (IF "kinesis" \in service_types \/ "sqs" \in service_types
          THEN <<"Event-driven processing">> ELSE <<>>)
      \o (IF "cloudfront" \in service_types
          THEN <<"Content delivery network">> ELSE <<>>)
      \o (IF {"rds", "dynamodb", "elasticsearch", "redshift"} \cap service_types # {}
          THEN <<"Multi-tier data storage">> ELSE <<>>)

\* incoming_counts.get(id, 0) and outgoing_counts.get(id, 0): the counts are
\* kept only for ids of services, and looked up by the id of a service.
IncomingCount(connections, id) ==
  Cardinality({k \in 1..Len(connections) : connections[k].target = id})

OutgoingCount(connections, id) ==
  Cardinality({k \in 1..Len(connections) : connections[k].source = id})

\* The entry test that does not look at the incoming connections.
IsEntryPoint_WithAnyOutgoing(connections, service) ==
  OutgoingCount(connections, service.id) > 0

IsEntryPoint(connections, service) ==
  IncomingCount(connections, service.id) = 0 /\ OutgoingCount(connections, service.id) > 0

IsEndpoint(connections, service) ==
  ~IsEntryPoint(connections, service)
  /\ OutgoingCount(connections, service.id) = 0
  /\ IncomingCount(connections, service.id) > 0

\* The display names of the entry points (entry = TRUE) or of the endpoints,
\* in service order.
RECURSIVE RoleNames(_, _, _, _)
RoleNames(services, connections, entry, i) ==
  IF i > Len(services) THEN <<>>
  ELSE (IF (IF entry THEN IsEntryPoint(connections, services[i])
                     ELSE IsEndpoint(connections, services[i]))
        THEN <<_get_service_display_name(services[i].type)>> ELSE <<>>)
       \o RoleNames(services, connections, entry, i + 1)

_describe_data_flow(services, connections) ==
  IF Len(connections) = 0
  THEN "No explicit connections defined between services."
  ELSE LET entry_names == RoleNames(services, connections, TRUE, 1)
           endpoint_names == RoleNames(services, connections, FALSE, 1)
           flow_description ==
             (IF Len(entry_names) > 0
              THEN <<"Traffic enters through " \o Join(entry_names, ", ")>> ELSE <<>>)
             \o (IF Len(endpoint_names) > 0
                 THEN <<"and flows to " \o Join(endpoint_names, ", ")>> ELSE <<>>)
       IN  IF Len(flow_description) > 0
           THEN Join(flow_description, " ") \o "."
           ELSE "Complex interconnected architecture with "
                  \o ToString(Len(connections)) \o " connections between services."

_describe_security_aspects(services) ==
  LET service_types == TypesPresent(services)
      security_aspects ==
        (IF "iam" \in service_types THEN <<"IAM access control">> ELSE <<>>)
        \o (IF "waf" \in service_types THEN <<"WAF web protection">> ELSE <<>>)
        \o (IF "kms" \in service_types THEN <<"KMS encryption">> ELSE <<>>)
        \o (IF "secretsmanager" \in service_types THEN <<"Secrets Manager">> ELSE <<>>)
        \o (IF "cognito" \in service_types THEN <<"Cognito authentication">> ELSE <<>>)
        \o (IF "vpc" \in service_types THEN <<"VPC network isolation">> ELSE <<>>)
        \o (IF "cloudwatch" \in service_types THEN <<"CloudWatch monitoring">> ELSE <<>>)
  IN  IF Len(security_aspects) = 0
      THEN "No explicit security services identified in the diagram."
      ELSE "Includes " \o Join(security_aspects, ", ") \o "."

NoServicesSentence ==
  "No AWS services were detected in the uploaded diagram. Please ensure your diagram contains AWS service components with recognizable labels."

\* The parts with the data flow appended before the patterns.
DescriptionParts_FlowBeforePatterns(parsed_data) ==
  LET services == parsed_data.services
      connections == parsed_data.connections
      title == parsed_data.diagram_info.title
      patterns == _identify_architecture_patterns(services, connections)
      data_flow == _describe_data_flow(services, connections)
      security_highlights == _describe_security_aspects(services)
  IN  (IF title # "Unknown" THEN <<"**" \o title \o "**">> ELSE <<>>)
      \o <<"This architecture diagram contains **" \o ToString(Len(services))
             \o " AWS services** with **" \o ToString(Len(connections))
             \o " connections** between components.">>
      \o <<ServiceBreakdown(services)>>
      \o (IF data_flow # "" THEN <<"**Data Flow:** " \o data_flow>> ELSE <<>>)
      \o (IF Len(patterns) > 0
          THEN <<"**Architecture Patterns Detected:** " \o Join(patterns, ", ")>>
          ELSE <<>>)
      \o (IF security_highlights # ""
          THEN <<"**Security Aspects:** " \o security_highlights>> ELSE <<>>)

\* The parts of the description of a diagram with at least one service, in
\* the order they are appended.
DescriptionParts(parsed_data) ==
  LET services == parsed_data.services
      connections == parsed_data.connections
      title == parsed_data.diagram_info.title
      patterns == _identify_architecture_patterns(services, connections)
      data_flow == _describe_data_flow(services, connections)
      security_highlights == _describe_security_aspects(services)
  IN  (IF title # "Unknown" THEN <<"**" \o title \o "**">> ELSE <<>>)
      \o <<"This architecture diagram contains **" \o ToString(Len(services))
             \o " AWS services** with **" \o ToString(Len(connections))
             \o " connections** between components.">>
      \o <<ServiceBreakdown(services)>>
      \o (IF Len(patterns) > 0
          THEN <<"**Architecture Patterns Detected:** " \o Join(patterns, ", ")>>
          ELSE <<>>)
      \o (IF data_flow # "" THEN <<"**Data Flow:** " \o data_flow>> ELSE <<>>)
      \o (IF security_highlights # ""
          THEN <<"**Security Aspects:** " \o security_highlights>> ELSE <<>>)

\* The description that puts the title before the sentence of a diagram
\* without services.
generate_architecture_description_TitledWhenEmpty(parsed_data) ==
  IF Len(parsed_data.services) = 0
  THEN IF parsed_data.diagram_info.title # "Unknown"
       THEN "**" \o parsed_data.diagram_info.title \o "**\n\n" \o NoServicesSentence
       ELSE NoServicesSentence
  ELSE Join(DescriptionParts(parsed_data), "\n\n")

generate_architecture_description(parsed_data) ==
  IF Len(parsed_data.services) = 0 THEN NoServicesSentence
  ELSE Join(DescriptionParts(parsed_data), "\n\n")

\* ------------------------------------------------------------------------
\* Security Heuristics Analyzer: create_fallback_analysis (processor.py)
\* Scores are held in tenths (10 is 1.0, 80 is 8.0).
\* ------------------------------------------------------------------------

Min(a, b) == IF a < b THEN a ELSE b
Max(a, b) == IF a > b THEN a ELSE b

Issue(severity, component, issue, aws_service) ==
  [severity |-> severity, component |-> component, issue |-> issue,
   aws_service |-> aws_service]

NoServicesIssue ==
  Issue("HIGH", "Architecture", "No AWS services detected in diagram", "General")

InsufficientDetailIssue ==
  Issue("MEDIUM", "Documentation",
        "Insufficient architectural detail for comprehensive analysis", "Documentation")

LimitedServicesIssue ==
  Issue("MEDIUM", "Architecture Completeness",
        "Limited services detected - may not represent complete architecture",
        "Architecture")

FewConnectionsIssue ==
  Issue("LOW", "Service Connectivity",
        "Few or no connections shown between services", "General")

\* The score without the caps of its three terms and without the final
\* clamp, at 5.0 a public service.
calculate_basic_security_score_Uncapped(services, security_analysis) ==
  IF Len(services) = 0 THEN 50
  ELSE 80 - Len(security_analysis.public_services) * 50
          - Len(security_analysis.unencrypted_services) * 3
          + security_analysis.security_service_count * 2

calculate_basic_security_score(services, security_analysis) ==
  IF Len(services) = 0 THEN 50
  ELSE LET public_services == Len(security_analysis.public_services)
           unencrypted_services == Len(security_analysis.unencrypted_services)
           security_service_count == security_analysis.security_service_count
           score == 80
                    - (IF public_services > 0 THEN Min(20, public_services * 5) ELSE 0)
                    - (IF unencrypted_services > 0
                       THEN Min(15, unencrypted_services * 3) ELSE 0)
                    + (IF security_service_count > 0
                       THEN Min(10, security_service_count * 2) ELSE 0)
       IN  Max(0, Min(100, score))

PublicIssue(service) ==
  Issue("HIGH", service.label, "Service appears to be publicly accessible",
        Upper(service.type))

UnencryptedIssue(service) ==
  Issue("MEDIUM", service.label, "Service may not have encryption configured",
        Upper(service.type))

generate_basic_security_issues(services, security_analysis) ==
  LET service_types == TypesPresent(services)
      public == security_analysis.public_services
      unencrypted == security_analysis.unencrypted_services
  IN  [k \in 1..Len(public) |-> PublicIssue(public[k])]
      \o [k \in 1..Len(unencrypted) |-> UnencryptedIssue(unencrypted[k])]
      \o (IF "iam" \notin service_types
          THEN <<Issue("MEDIUM", "Architecture",
                       "No IAM service explicitly shown in diagram", "IAM")>>
          ELSE <<>>)
      \o (IF "waf" \notin service_types
             /\ \E k \in 1..Len(services) : services[k].type \in {"apigateway", "elb"}
          THEN <<Issue("LOW", "Web Services",
                       "Web services without WAF protection", "WAF")>>
          ELSE <<>>)

\* create_fallback_analysis(architecture_data): the "results" of the
\* returned dictionary.
create_fallback_analysis(architecture_data) ==
  LET services == architecture_data.services
      security_analysis == architecture_data.security_analysis
  IN  IF Len(services) = 0
      THEN [status |-> "completed", overall_score |-> 10, score |-> 10, issues |-> <<NoServicesIssue>>]
      ELSE IF Len(services) <= 2
      THEN [status |-> "completed", overall_score |-> 30, score |-> 30, issues |-> <<LimitedServicesIssue>>]
      ELSE LET security_score == calculate_basic_security_score(services, security_analysis)
           IN  [status |-> "completed", overall_score |-> security_score, score |-> security_score,
                issues |-> generate_basic_security_issues(services, security_analysis)]

\* ------------------------------------------------------------------------
\* Fallback analyses of the lightweight copies (backend_clean), used when
\* the Bedrock call fails. Their scores are 6.5 and 3.0, in tenths.
\* ------------------------------------------------------------------------

\* component_types = [comp['service_type'] for comp in components], read by
\* membership tests only.
ComponentTypes(architecture_info) ==
  {architecture_info.components[k].service_type :
     k \in 1..Len(architecture_info.components)}

\* architecture_info.get('has_content', False)
HasContent(architecture_info) ==
  "has_content" \in DOMAIN architecture_info /\ architecture_info.has_content

\* recommendations[:n]
Take(seq, n) == SubSeq(seq, 1, Min(n, Len(seq)))

\* The issues the four component rules append, in their order; the two
\* copies share them (they differ in the recommendation text of an issue,
\* which Issue leaves out).
ComponentIssues(component_types) ==
  (IF "Load Balancer" \in component_types
   THEN <<Issue("MEDIUM", "Application Load Balancer",
                "Load balancer should enforce HTTPS and implement proper security headers",
                "ALB")>>
   ELSE <<>>)
  \o (IF "EC2" \in component_types
      THEN <<Issue("HIGH", "EC2 Instances",
                   "EC2 instances may lack proper security group configuration and access controls",
                   "EC2")>>
      ELSE <<>>)
  \o (IF "RDS" \in component_types
      THEN <<Issue("MEDIUM", "RDS Database",
                   "Database security configuration should be reviewed", "RDS")>>
      ELSE <<>>)
  \o (IF "S3" \in component_types
      THEN <<Issue("MEDIUM", "S3 Storage",
                   "S3 bucket security and access policies need review", "S3")>>
      ELSE <<>>)

GeneralIssue ==
  Issue("LOW", "General Architecture",
        "Architecture requires comprehensive security review", "General")

EmptyDiagramIssue ==
  Issue("HIGH", "Architecture Diagram",
        "Empty or invalid architecture diagram uploaded", "General")

\* lightweight_handler.generate_security_issues_for_architecture
generate_security_issues_for_architecture(architecture_info) ==
  IF ~HasContent(architecture_info) THEN <<EmptyDiagramIssue>>
  ELSE LET issues == ComponentIssues(ComponentTypes(architecture_info))
       IN  IF Len(issues) = 0 THEN <<GeneralIssue>> ELSE issues

\* lightweight_processor.generate_security_issues
generate_security_issues(architecture_info) ==
  LET issues == ComponentIssues(ComponentTypes(architecture_info))
  IN  IF Len(issues) = 0 THEN <<GeneralIssue>> ELSE issues

EmptyDiagramRecommendations ==
  <<"Upload a valid draw.io architecture diagram with AWS components",
    "Include proper AWS service icons and labels",
    "Ensure the diagram shows network connections and data flow",
    "Consider using AWS architecture icons for clarity">>

\* The list lightweight_handler's recommendations start from.
HandlerBaseline ==
  <<"Implement AWS WAF for application-layer protection",
    "Enable AWS CloudTrail for comprehensive audit logging",
    "Configure VPC Flow Logs for network monitoring",
    "Use AWS Config for compliance monitoring and drift detection">>

\* The list lightweight_processor's recommendations start from.
ProcessorBaseline ==
  HandlerBaseline \o
  <<"Implement AWS GuardDuty for threat detection",
    "Enable AWS Security Hub for centralized security findings",
    "Use AWS Systems Manager for secure instance management",
    "Implement proper backup and disaster recovery strategies">>

\* The recommendations lightweight_handler appends for components, in order.
HandlerExtras(component_types) ==
  (IF "RDS" \in component_types
   THEN <<"Enable RDS Performance Insights and automated backups">> ELSE <<>>)
  \o (IF "S3" \in component_types
      THEN <<"Implement S3 bucket lifecycle policies and cross-region replication">>
      ELSE <<>>)
  \o (IF "Load Balancer" \in component_types
      THEN <<"Configure ALB access logs and implement health checks">> ELSE <<>>)
  \o (IF "EC2" \in component_types
      THEN <<"Use AWS Systems Manager for secure instance management">> ELSE <<>>)

\* The recommendations lightweight_processor appends for components.
ProcessorExtras(component_types) ==
  (IF "RDS" \in component_types
   THEN <<"Enable RDS Performance Insights and automated backups">> ELSE <<>>)
  \o (IF "S3" \in component_types
      THEN <<"Implement S3 bucket lifecycle policies and cross-region replication">>
      ELSE <<>>)
  \o (IF "Load Balancer" \in component_types
      THEN <<"Configure ALB access logs and implement health checks">> ELSE <<>>)

\* lightweight_handler.generate_recommendations_for_architecture
generate_recommendations_for_architecture(architecture_info) ==
  IF ~HasContent(architecture_info) THEN EmptyDiagramRecommendations
  ELSE Take(HandlerBaseline \o HandlerExtras(ComponentTypes(architecture_info)), 6)

\* lightweight_processor.generate_recommendations
generate_recommendations(architecture_info) ==
  Take(ProcessorBaseline \o ProcessorExtras(ComponentTypes(architecture_info)), 8)

\* lightweight_handler.create_fallback_analysis_response
create_fallback_analysis_response(architecture_info) ==
  LET score == IF HasContent(architecture_info) THEN 65 ELSE 30
  IN  [status |-> "completed", overall_score |-> score, score |-> score,
       issues |-> generate_security_issues_for_architecture(architecture_info),
       recommendations |-> generate_recommendations_for_architecture(architecture_info)]

\* lightweight_processor.create_fallback_analysis
LightweightProcessor_create_fallback_analysis(architecture_info) ==
  [status |-> "completed", overall_score |-> 65, score |-> 65,
   issues |-> generate_security_issues(architecture_info),
   recommendations |-> generate_recommendations(architecture_info)]

\* ------------------------------------------------------------------------
\* Mock server (backend/mock_server.py)
\* ------------------------------------------------------------------------

MockFallbackDescription ==
  "Architecture uploaded successfully. This is a mock server for local testing."

\* analyze_architecture: the description stored with the mock analysis; any
\* exception of parse or describe is replaced by the fixed text.
MockDescription(doc) ==
  LET architecture_data == DrawIOParser_parse(doc)
  IN  IF architecture_data.status = "raised" THEN MockFallbackDescription
      ELSE generate_architecture_description(architecture_data)

\* get_analysis_results once 15 seconds have passed: the mock results are
\* chosen by the text of the stored description.
MockResults(description) ==
  IF Contains(description, "No AWS services were detected")
  THEN [status |-> "completed", overall_score |-> 10, score |-> 10,
        issues |-> <<NoServicesIssue, InsufficientDetailIssue>>]
  ELSE IF Contains(description, "Limited architecture detected")
          \/ Count(description, "service") <= 2
  THEN [status |-> "completed", overall_score |-> 30, score |-> 30,
        issues |-> <<LimitedServicesIssue, FewConnectionsIssue>>]
  ELSE [status |-> "completed", overall_score |-> 72, score |-> 68,
        issues |-> <<Issue("HIGH", "S3 Bucket", "Public read access enabled", "S3"),
                     Issue("MEDIUM", "VPC Configuration",
                           "No explicit security groups shown in diagram", "VPC"),
                     Issue("LOW", "Database Connection",
                           "Database connection encryption not explicitly shown", "RDS")>>]

\* ------------------------------------------------------------------------
\* Scores read from the text of the AI response (backend_clean).  A score
\* read from text is held in hundredths (700 is 7.0, 1500 is 15.0).
\* ------------------------------------------------------------------------

Digits == {"0", "1", "2", "3", "4", "5", "6", "7", "8", "9"}

\* The regular-expression class \s, for the blanks of the model's texts.
Blanks == {" ", "\n", "\t"}

CharAt(s, i) == IF i >= 1 /\ i <= Len(s) THEN SubSeq(s, i, i) ELSE ""

DigitValue(c) ==
  CASE c = "0" -> 0 [] c = "1" -> 1 [] c = "2" -> 2 [] c = "3" -> 3 [] c = "4" -> 4
    [] c = "5" -> 5 [] c = "6" -> 6 [] c = "7" -> 7 [] c = "8" -> 8 [] OTHER -> 9

\* The place after the longest run of characters of a class that starts at
\* i (the match of [class]* at i).
RECURSIVE SkipClass(_, _, _)
SkipClass(s, i, class) ==
  IF CharAt(s, i) \in class THEN SkipClass(s, i + 1, class) ELSE i

\* int() of a string of digits.
RECURSIVE IntOf(_)
IntOf(digits) ==
  IF Len(digits) = 0 THEN 0
  ELSE 10 * IntOf(SubSeq(digits, 1, Len(digits) - 1))
         + DigitValue(SubSeq(digits, Len(digits), Len(digits)))

NoMatch == [found |-> FALSE, value |-> 0, next |-> 0]

\* float() of a number with decimals: the whole part, the point at e, and
\* the place f after the decimals, in hundredths (the texts of the model
\* have at most two decimals).
FractionAt(s, e, whole, f) ==
  [found |-> TRUE,
   value |-> 100 * whole + IntOf(SubSeq(SubSeq(s, e + 1, f - 1) \o "0", 1, 2)),
   next |-> f]

\* The number whose first run of digits goes from i to the place before e.
NumberFrom(s, i, e) ==
  IF CharAt(s, e) = "." /\ CharAt(s, e + 1) \in Digits
  THEN FractionAt(s, e, IntOf(SubSeq(s, i, e - 1)), SkipClass(s, e + 1, Digits))
  ELSE [found |-> TRUE, value |-> 100 * IntOf(SubSeq(s, i, e - 1)), next |-> e]

\* The match of (\d+(?:\.\d+)?) at i and float() of it, in hundredths.
NumberAt(s, i) ==
  IF CharAt(s, i) \notin Digits THEN NoMatch
  ELSE NumberFrom(s, i, SkipClass(s, i, Digits))

\* The literal word at i.
WordAt(s, i, word) ==
  i >= 1 /\ i + Len(word) - 1 <= Len(s) /\ SubSeq(s, i, i + Len(word) - 1) = word

\* The match of  :["\s]*(\d+(?:\.\d+)?)  at the place reached after the word.
AfterColon(s, colon) ==
  IF CharAt(s, colon) # ":" THEN NoMatch
  ELSE NumberAt(s, SkipClass(s, colon + 1, Blanks \cup {"\""}))

\* The match at i of  word["\s]*:["\s]*(\d+(?:\.\d+)?)
ColonNumberAt(s, i, word) ==
  IF ~WordAt(s, i, word) THEN NoMatch
  ELSE AfterColon(s, SkipClass(s, i + Len(word), Blanks \cup {"\""}))

\* The match at i of  before[_\s]*score["\s]*:["\s]*(\d+(?:\.\d+)?)
PrefixedScoreAt(s, i, before) ==
  IF ~WordAt(s, i, before) THEN NoMatch
  ELSE ColonNumberAt(s, SkipClass(s, i + Len(before), Blanks \cup {"_"}), "score")

\* The number after the separators [:\s]+ that go from start to the place
\* before after.
AfterSeparator(s, start, after) ==
  IF after = start THEN NoMatch ELSE NumberAt(s, after)

\* The match at i of  word[:\s]+(\d+(?:\.\d+)?)
SeparatedNumberAt(s, i, word) ==
  IF ~WordAt(s, i, word) THEN NoMatch
  ELSE AfterSeparator(s, i + Len(word), SkipClass(s, i + Len(word), Blanks \cup {":"}))

\* The match of  of\s*10  at the place reached after "out".
OfTen(s, of) ==
  WordAt(s, of, "of") /\ WordAt(s, SkipClass(s, of + 2, Blanks), "10")

\* The match of  (?:/\s*10|out\s*of\s*10), and, with fixed set, of
\* (?:/\s*10|out of 10), at the place reached after the number.
IsOutOfTen(s, after, fixed) ==
  \/ CharAt(s, after) = "/" /\ WordAt(s, SkipClass(s, after + 1, Blanks), "10")
  \/ IF fixed THEN WordAt(s, after, "out of 10")
     ELSE WordAt(s, after, "out") /\ OfTen(s, SkipClass(s, after + 3, Blanks))

\* The number, when it is followed by \s* and "/10" or "out of 10".
TenAfter(s, number, fixed) ==
  IF number.found /\ IsOutOfTen(s, SkipClass(s, number.next, Blanks), fixed)
  THEN number ELSE NoMatch

\* The match at i of  (\d+(?:\.\d+)?)\s*(?:/\s*10|out\s*of\s*10), and, with
\* fixed set, of  (\d+(?:\.\d+)?)\s*(?:/\s*10|out of 10)
OutOfTenAt(s, i, fixed) == TenAfter(s, NumberAt(s, i), fixed)

\* The patterns of the four parsers, by name: "overall_score:", "score:",
\* "security_score:" and "N/10" are those of extract_score_from_text;
\* "overall score", "score", "rate" and "N/10 fixed" those of the others.
PatternAt(s, i, pattern) ==
  CASE pattern \in {"overall_score:", "security_score:"} ->
         PrefixedScoreAt(s, i, IF pattern = "overall_score:" THEN "overall"
                               ELSE "security")
    [] pattern = "score:" -> ColonNumberAt(s, i, "score")
    [] pattern \in {"N/10", "N/10 fixed"} -> OutOfTenAt(s, i, pattern = "N/10 fixed")
    [] pattern = "overall score" ->
         IF WordAt(s, i, "overall") /\ CharAt(s, i + 7) \in Blanks \cup {"_"}
         THEN SeparatedNumberAt(s, i + 8, "score") ELSE NoMatch
    [] OTHER -> SeparatedNumberAt(s, i, pattern)

\* The places of s with what the pattern matches there.
Hits(s, pattern) ==
  {[at |-> i, match |-> PatternAt(s, i, pattern)] : i \in 1..Len(s)}

\* The match at the leftmost of the places.
Leftmost(hits) ==
  IF hits = {} THEN NoMatch
  ELSE (CHOOSE h \in hits : \A g \in hits : h.at <= g.at).match

\* re.search(pattern, s): the leftmost match.
Search(s, pattern) == Leftmost({h \in Hits(s, pattern) : h.match.found})

OrElse(match, other) == IF match.found THEN match ELSE other

\* The group of the first pattern of the list that matches.
RECURSIVE FirstPatternMatch(_, _, _)
FirstPatternMatch(s, patterns, k) ==
  IF k > Len(patterns) THEN NoMatch
  ELSE OrElse(Search(s, patterns[k]), FirstPatternMatch(s, patterns, k + 1))

\* `if score > 10: score = score / 10`
Rescaled(score) == IF score > 1000 THEN score \div 10 ELSE score

\* The loop body of extract_score_from_text for the match found:
\* `return min(max(score, 0), 10)`, and the default after the loop.
ClampedScoreOf(match, default) ==
  IF match.found THEN Min(Max(Rescaled(match.value), 0), 1000) ELSE default

\* The loop body of the three other parsers for the match found: the score
\* is kept as it is after the division, and the default otherwise.
ScoreOf(match, default) ==
  IF match.found THEN Rescaled(match.value) ELSE default

\* lightweight_handler.extract_score_from_text(response_text, default=7.0)
extract_score_from_text(response_text) ==
  ClampedScoreOf(FirstPatternMatch(Lower(response_text),
                   <<"overall_score:", "score:", "security_score:", "N/10">>, 1), 700)

\* The score of lightweight_processor.parse_structured_bedrock_response
parse_structured_bedrock_response(response_text) ==
  ScoreOf(FirstPatternMatch(Lower(response_text),
            <<"overall score", "score", "rate", "N/10 fixed">>, 1), 750)

\* The score of lightweight_processor.parse_detailed_bedrock_response
parse_detailed_bedrock_response(response_text) ==
  ScoreOf(FirstPatternMatch(Lower(response_text), <<"score", "rate", "N/10 fixed">>, 1), 750)

\* The score of lightweight_handler.parse_bedrock_response
parse_bedrock_response(response_text) ==
  ScoreOf(FirstPatternMatch(Lower(response_text), <<"score", "rate", "N/10 fixed">>, 1), 700)

\* ------------------------------------------------------------------------
\* State
\* ------------------------------------------------------------------------

\* The result of an operation that has not run yet.
NotRun == "<not run>"
NotParsed == [status |-> "not run"]
NoResults == [status |-> "not run"]

VARIABLES
  label,        \* classifier input: the displayed text of a shape
  style,        \* classifier input: the style string of the shape
  cls,          \* the classifiers' results for (label, style), by implementation
  doc,          \* the uploaded diagram document
  program,      \* the copy of the backend that handles the upload
  parsed,       \* what that program's parse returned or raised
  description,  \* the description the mock server stored for the upload
  results,      \* the analysis results the program derived
  earlier,      \* the description an earlier upload of the same document got
  request,      \* the request or event the running handler was called with
  pc,           \* the position of the running handler in its code
  attempt,      \* the loop variable of call_bedrock_agent
  invocations,  \* the outcomes of the remote calls made so far, in order
  sleeps,       \* the delays slept so far, in tenths of a second
  allocated,    \* the number of analysis ids generated so far
  stored,       \* the number of files put into the upload bucket
  record,       \* the status of the analysis record in the table
  writes,       \* the statuses the handler tried to write to the table, in order
  response      \* what the handler returned

classifierVars == <<label, style, cls>>
uploadVars == <<doc, program, parsed, description, results, earlier>>
serviceVars ==
  <<request, pc, attempt, invocations, sleeps, allocated, stored, record, writes, response>>

serviceVarsButPcResponse ==
  <<request, attempt, invocations, sleeps, allocated, stored, record, writes>>

vars == <<classifierVars, uploadVars, serviceVars>>

\* The handler has not returned yet.
NoResponse == [statusCode |-> 0]

\* No request is being handled.
NoService ==
  /\ request = "none"
  /\ pc = "idle"
  /\ attempt = 0
  /\ invocations = <<>>
  /\ sleeps = <<>>
  /\ allocated = 0
  /\ stored = 0
  /\ record = "none"
  /\ writes = <<>>
  /\ response = NoResponse

\* ------------------------------------------------------------------------
\* The classifiers applied to bounded inputs
\* ------------------------------------------------------------------------

KeywordsOf(table) ==
  UNION {{table[i].keywords[j] : j \in 1..Len(table[i].keywords)} : i \in 1..Len(table)}

\* Labels of the documented examples, labels without any keyword, mixed-case labels and
\* labels reaching only the last two branches of the chain.
SampleLabels ==
  {"", "ALB", "Application Load Balancer", "Amazon S3 Bucket", "EC2 Instance",
   "RDS Database", "Client", "Amazon Foo", "AMAZON", "Serverless API",
   "Microsoft SQL Server", "GraphQL API", "Step Functions", "VPC Endpoint"}

Labels ==
  SampleLabels \cup KeywordsOf(HandlerKeywordTable)
    \cup KeywordsOf(ProcessorKeywordTable) \cup KeywordsOf(aws_services)

Styles == {"", "rounded=1;whiteSpace=wrap", "shape=mxgraph.aws4.resourceIcon", "sketch=0;AWS"}

Classifiers == {"handler", "processor", "drawio"}

\* No upload is in progress.
NoUpload ==
  /\ doc = [wellformed |-> TRUE, diagrams |-> <<>>, cells |-> <<>>]
  /\ program = "none"
  /\ parsed = NotParsed
  /\ description = NotRun
  /\ results = NoResults
  /\ earlier = NotRun

InitClassify ==
  /\ label \in Labels
  /\ style \in Styles
  /\ cls = [c \in Classifiers |-> NotRun]
  /\ NoUpload
  /\ NoService

ClassifyHandler ==
  /\ cls["handler"] = NotRun
  /\ cls' = [cls EXCEPT !["handler"] = identify_aws_service_type(label, style)]
  /\ UNCHANGED <<label, style, uploadVars, serviceVars>>

ClassifyProcessor ==
  /\ cls["processor"] = NotRun
  /\ cls' = [cls EXCEPT !["processor"] = identify_aws_service(label, style)]
  /\ UNCHANGED <<label, style, uploadVars, serviceVars>>

ClassifyDrawIO ==
  /\ cls["drawio"] = NotRun
  /\ cls' = [cls EXCEPT !["drawio"] = _identify_aws_service(label)]
  /\ UNCHANGED <<label, style, uploadVars, serviceVars>>

NextClassify == ClassifyHandler \/ ClassifyProcessor \/ ClassifyDrawIO

SpecClassify == InitClassify /\ [][NextClassify]_vars

\* ------------------------------------------------------------------------
\* Uploads: one document handled by one copy of the backend
\* ------------------------------------------------------------------------

\* The most mxCell elements of a document.
MaxCells == 3

\* The name attributes of the diagram elements of a document.
DiagramNames == {<<>>, <<"Web service tier">>}

Documents ==
  {Malformed} \cup
  [wellformed : {TRUE},
   diagrams : DiagramNames,
   cells : UNION {[1..n -> Cells] : n \in 0..MaxCells}]

Programs == {"processor", "mock", "lightweight_handler", "lightweight_processor"}

NoClassification ==
  /\ label = ""
  /\ style = ""
  /\ cls = [c \in Classifiers |-> NotRun]

Init ==
  /\ NoClassification
  /\ doc \in Documents
  /\ program \in Programs
  /\ parsed = NotParsed
  /\ description = NotRun
  /\ results = NoResults
  /\ earlier = NotRun
  /\ NoService

\* processor.process_analysis: xml_parser.parse(xml_content)
ProcessorParse ==
  /\ program = "processor"
  /\ parsed = NotParsed
  /\ parsed' = DrawIOParser_parse(doc)
  /\ UNCHANGED <<classifierVars, serviceVars, earlier, doc, program, description, results>>

\* processor.process_analysis with no Bedrock agent configured:
\* create_fallback_analysis(architecture_data)
ProcessorFallbackAnalysis ==
  /\ program = "processor"
  /\ parsed.status = "returned"
  /\ results = NoResults
  /\ results' = create_fallback_analysis(parsed)
  /\ UNCHANGED <<classifierVars, serviceVars, earlier, doc, program, parsed, description>>

\* mock_server.analyze_architecture for an upload with an accepted name and
\* size: parse and describe at once, store the description.
MockUpload ==
  /\ program = "mock"
  /\ description = NotRun
  /\ parsed' = DrawIOParser_parse(doc)
  /\ description' = MockDescription(doc)
  /\ UNCHANGED <<classifierVars, serviceVars, earlier, doc, program, results>>

\* mock_server.get_analysis_results, 15 seconds or more after the upload.
MockGetResults ==
  /\ program = "mock"
  /\ description # NotRun
  /\ results = NoResults
  /\ results' = MockResults(description)
  /\ UNCHANGED <<classifierVars, serviceVars, earlier, doc, program, parsed, description>>

\* lightweight_handler.handle_file_upload: parse_uploaded_xml(xml_content)
HandlerParse ==
  /\ program = "lightweight_handler"
  /\ parsed = NotParsed
  /\ parsed' = parse_uploaded_xml(doc)
  /\ UNCHANGED <<classifierVars, serviceVars, earlier, doc, program, description, results>>

\* lightweight_processor.handler: parse_drawio_xml(xml_content)
LightweightProcessorParse ==
  /\ program = "lightweight_processor"
  /\ parsed = NotParsed
  /\ parsed' = parse_drawio_xml(doc)
  /\ UNCHANGED <<classifierVars, serviceVars, earlier, doc, program, description, results>>

\* lightweight_handler.call_bedrock_agent when the Bedrock call fails with an
\* error that is neither throttling nor a permission error:
\* create_fallback_analysis_response(architecture_info, str(e))
HandlerFallbackAnalysis ==
  /\ program = "lightweight_handler"
  /\ parsed # NotParsed
  /\ results = NoResults
  /\ results' = create_fallback_analysis_response(parsed)
  /\ UNCHANGED <<classifierVars, serviceVars, earlier, doc, program, parsed, description>>

\* lightweight_processor.call_bedrock_agent_detailed when the Bedrock call
\* fails: create_fallback_analysis(architecture_info, str(e))
LightweightProcessorFallbackAnalysis ==
  /\ program = "lightweight_processor"
  /\ parsed # NotParsed
  /\ results = NoResults
  /\ results' = LightweightProcessor_create_fallback_analysis(parsed)
  /\ UNCHANGED <<classifierVars, serviceVars, earlier, doc, program, parsed, description>>

Next ==
  \/ ProcessorParse
  \/ ProcessorFallbackAnalysis
  \/ MockUpload
  \/ MockGetResults
  \/ HandlerParse
  \/ LightweightProcessorParse
  \/ HandlerFallbackAnalysis
  \/ LightweightProcessorFallbackAnalysis

Spec == Init /\ [][Next]_vars

\* ------------------------------------------------------------------------
\* Analysis of diagrams of recognised shapes by processor.process_analysis
\* ------------------------------------------------------------------------

\* Diagrams of up to MaxNodes shapes with the labels of NodeLabels.
NodeDocuments ==
  {[wellformed |-> TRUE, diagrams |-> <<>>, cells |-> [i \in 1..Len(texts) |-> Node(i, texts[i])]] :
     texts \in UNION {[1..n -> NodeLabels] : n \in 0..MaxNodes}}

InitAnalyze ==
  /\ NoClassification
  /\ doc \in NodeDocuments
  /\ program = "processor"
  /\ parsed = NotParsed
  /\ description = NotRun
  /\ results = NoResults
  /\ earlier = NotRun
  /\ NoService

\* The diagram with one more public-facing shape.
WithPublicNode(document, text) ==
  [document EXCEPT !.cells = Append(document.cells, Node(Len(document.cells) + 1, text))]

\* process_analysis for a second upload, the analysed diagram with one more
\* public-facing shape: parse, then create_fallback_analysis.
ProcessorAnalyzeWithPublicNode ==
  /\ program = "processor"
  /\ results # NoResults
  /\ \A i \in 1..Len(doc.cells) : doc.cells[i].value \in NodeLabels
  /\ \E text \in PublicLabels :
       /\ doc' = WithPublicNode(doc, text)
       /\ parsed' = DrawIOParser_parse(doc')
       /\ results' = create_fallback_analysis(parsed')
  /\ UNCHANGED <<classifierVars, serviceVars, earlier, program, description>>

NextAnalyze ==
  \/ ProcessorParse
  \/ ProcessorFallbackAnalysis
  \/ ProcessorAnalyzeWithPublicNode

SpecAnalyze == InitAnalyze /\ [][NextAnalyze]_vars

\* ------------------------------------------------------------------------
\* Descriptions by mock_server.analyze_architecture, the caller of parse
\* followed by generate_architecture_description
\* ------------------------------------------------------------------------

\* The most mxCell elements of a narrated diagram.
MaxParts == 4

\* The name attributes of the diagram element: none, the text that is also
\* the default title, and a title.
NarratedNames == {<<>>, <<"Unknown">>, <<"Web service tier">>}

NarratedDocuments ==
  [wellformed : {TRUE},
   diagrams : NarratedNames,
   cells : UNION {[1..n -> NarratedCells] : n \in 0..MaxParts}]

InitDescribe ==
  /\ NoClassification
  /\ doc \in NarratedDocuments
  /\ program = "mock"
  /\ parsed = NotParsed
  /\ description = NotRun
  /\ results = NoResults
  /\ earlier = NotRun
  /\ NoService

\* A second upload handled by a parser object that kept the services of the
\* upload before it.
MockUploadAgain_Accumulating ==
  /\ program = "mock"
  /\ description # NotRun
  /\ earlier = NotRun
  /\ earlier' = description
  /\ parsed' = LET again == DrawIOParser_parse(doc)
                IN  IF again.status = "returned" /\ parsed.status = "returned"
                    THEN [again EXCEPT !.services = parsed.services \o again.services]
                    ELSE again
  /\ description' = IF parsed'.status = "raised" THEN MockFallbackDescription
                     ELSE generate_architecture_description(parsed')
  /\ UNCHANGED <<classifierVars, serviceVars, doc, program, results>>

\* mock_server.analyze_architecture for a second upload of the same file, by
\* the same module-level parser object: parse and describe again.
MockUploadAgain ==
  /\ program = "mock"
  /\ description # NotRun
  /\ earlier = NotRun
  /\ earlier' = description
  /\ parsed' = DrawIOParser_parse(doc)
  /\ description' = MockDescription(doc)
  /\ UNCHANGED <<classifierVars, serviceVars, doc, program, results>>

NextDescribe == MockUpload \/ MockUploadAgain

SpecDescribe == InitDescribe /\ [][NextDescribe]_vars

\* ------------------------------------------------------------------------
\* Narration of the patterns and of the data flow of uploaded diagrams
\* (mock_server.py, which calls the narrator on every upload)
\* ------------------------------------------------------------------------

\* The sequences of length n over 1..k that never decrease.
Ascending(n, k) ==
  {f \in [1..n -> 1..k] : \A i \in 1..n : i < n => f[i] <= f[i + 1]}

\* Diagrams of up to MaxPatternNodes shapes and no connector; the kinds are
\* read as a set and a count, so the shapes are listed in one order.
PatternDocuments ==
  {[wellformed |-> TRUE, diagrams |-> <<>>,
    cells |-> [i \in 1..Len(f) |-> Node(i, PatternLabels[f[i]])]] :
     f \in UNION {Ascending(n, Len(PatternLabels)) : n \in 0..MaxPatternNodes}}

\* The end of a connector numbered e in a diagram of n shapes: the id of
\* shape e, or "9" for e = n + 1.
FlowEnd(n, e) == IF e = n + 1 THEN "9" ELSE ToString(e + 1)

\* The connector numbered code among the (n + 1) * (n + 1) connectors of a
\* diagram of n shapes.
FlowEdgeOf(n, code) ==
  FlowEdge(FlowEnd(n, ((code - 1) \div (n + 1)) + 1), FlowEnd(n, ((code - 1) % (n + 1)) + 1))

\* The diagram of n shapes followed by the connectors numbered by codes.
FlowDocument(n, codes) ==
  [wellformed |-> TRUE, diagrams |-> <<>>,
   cells |-> [i \in 1..n |-> Node(i, FlowLabelAt(i))]
               \o [j \in 1..Len(codes) |-> FlowEdgeOf(n, codes[j])]]

\* Diagrams of up to MaxFlowNodes shapes and up to MaxEdges connectors
\* between the shapes and the id of no shape, parallel connectors and
\* connectors from a shape to itself included.
FlowDocuments ==
  UNION {{FlowDocument(n, codes) :
            codes \in UNION {Ascending(m, (n + 1) * (n + 1)) : m \in 0..MaxEdges}} :
           n \in 0..MaxFlowNodes}

InitNarrate ==
  /\ NoClassification
  /\ doc \in PatternDocuments \cup FlowDocuments
  /\ program = "mock"
  /\ parsed = NotParsed
  /\ description = NotRun
  /\ results = NoResults
  /\ earlier = NotRun
  /\ NoService

NextNarrate == MockUpload \/ MockGetResults

SpecNarrate == InitNarrate /\ [][NextNarrate]_vars

\* ------------------------------------------------------------------------
\* Scores the lightweight copies read from the completion of the agent
\* ------------------------------------------------------------------------

\* The numbers an AI response states: within the scale, above it as a
\* percentage, and far above it.
ScoreNumbers ==
  {"0", "7", "8.5", "9.75", "10", "10.5", "11", "85", "100", "150", "1000"}

\* What an AI response says before and after the number.
ScoreTemplates ==
  { <<"Overall score: ", "">>,
    <<"Overall Security Score: ", " out of 10">>,
    <<"{\"overall_score\": ", ", \"summary\": \"ok\"">>,
    <<"security_score : ", "">>,
    <<"I rate: ", " overall">>,
    <<"Security score ", " for this design">>,
    <<"Rated ", "/10">>,
    <<"It gets ", " out of 10 points">>,
    <<"Moderate risk. SCORE:", "%">>,
    <<"The architecture has ", " services.">> }

AiTexts == {t[1] \o n \o t[2] : t \in ScoreTemplates, n \in ScoreNumbers}

\* The completion the agent returned, or the exception invoke_agent raised.
Completion(text) == [raised |-> FALSE, text |-> text]
Raised(message) == [raised |-> TRUE, text |-> message]

\* The text of a completion.
LastCompletion == invocations[Len(invocations)].text

InitScore ==
  /\ NoClassification
  /\ NoUpload
  /\ request = "none"
  /\ pc = "parse_response"
  /\ attempt = 0
  /\ invocations \in {<<Completion(text)>> : text \in AiTexts}
  /\ sleeps = <<>>
  /\ allocated = 0
  /\ stored = 0
  /\ record = "none"
  /\ writes = <<>>
  /\ response = NoResponse

\* The score a parser read from the text of the completion.
ScoreRead(parser, score) ==
  /\ pc = "parse_response"
  /\ results = NoResults
  /\ results' = [status |-> "completed", parser |-> parser, overall_score |-> score]
  /\ UNCHANGED <<classifierVars, serviceVars, doc, program, parsed, description, earlier>>

\* lightweight_handler.create_enterprise_fallback_response: its overall_score
ExtractScoreFromText ==
  ScoreRead("extract_score_from_text", extract_score_from_text(LastCompletion))

\* lightweight_handler.parse_bedrock_response: its overall_score
ParseBedrockResponse ==
  ScoreRead("parse_bedrock_response", parse_bedrock_response(LastCompletion))

\* lightweight_processor.parse_structured_bedrock_response: its score
ParseStructuredBedrockResponse ==
  ScoreRead("parse_structured_bedrock_response",
            parse_structured_bedrock_response(LastCompletion))

\* lightweight_processor.parse_detailed_bedrock_response: its overall_score
ParseDetailedBedrockResponse ==
  ScoreRead("parse_detailed_bedrock_response",
            parse_detailed_bedrock_response(LastCompletion))

NextScore ==
  \/ ExtractScoreFromText
  \/ ParseBedrockResponse
  \/ ParseStructuredBedrockResponse
  \/ ParseDetailedBedrockResponse

SpecScore == InitScore /\ [][NextScore]_vars

\* ------------------------------------------------------------------------
\* The upload handler of backend_clean: lightweight_handler.handle_file_upload
\* and its remote call, call_bedrock_agent (checked under SpecUpload)
\* ------------------------------------------------------------------------

\* call_bedrock_agent: the retry configuration
max_retries == 1
base_delay == 10

\* Python's s.endswith(k)
EndsWith(s, k) == Len(s) >= Len(k) /\ SubSeq(s, Len(s) - Len(k) + 1, Len(s)) = k

\* A variant of ErrorClass that tests the permission words before the
\* throttling words.
ErrorClass_PermissionFirst(message) ==
  LET error_str == Lower(message)
  IN  IF \/ Contains(error_str, "access")
         \/ Contains(error_str, "authorization")
         \/ Contains(error_str, "permission")
      THEN "permission"
      ELSE IF \/ Contains(error_str, "throttling")
              \/ Contains(error_str, "rate")
              \/ Contains(error_str, "quota")
           THEN "throttling"
           ELSE "other"

\* call_bedrock_agent: the branch of the except clause an exception message
\* takes.  The tests are made on the lowered message, throttling first.
ErrorClass(message) ==
  LET error_str == Lower(message)
  IN  IF \/ Contains(error_str, "throttling")
         \/ Contains(error_str, "rate")
         \/ Contains(error_str, "quota")
      THEN "throttling"
      ELSE IF \/ Contains(error_str, "access")
              \/ Contains(error_str, "authorization")
              \/ Contains(error_str, "permission")
           THEN "permission"
           ELSE "other"

\* lightweight_handler.create_throttling_analysis_response.  The scores of
\* the rule-based responses are in tenths.
create_throttling_analysis_response(architecture_info, error_message) ==
  [overall_score |-> IF architecture_info.has_content THEN 70 ELSE 50,
   issues |-> << [severity |-> "INFO", component |-> "Bedrock AI Service",
                  aws_service |-> "Bedrock"] >>,
   throttling_error |-> error_message,
   error_type |-> "THROTTLING"]

\* lightweight_handler.create_permission_analysis_response
create_permission_analysis_response(architecture_info, error_message) ==
  [overall_score |-> IF architecture_info.has_content THEN 60 ELSE 40,
   issues |-> << [severity |-> "HIGH", component |-> "Bedrock Permissions",
                  aws_service |-> "IAM"] >>,
   permission_error |-> error_message,
   error_type |-> "PERMISSION"]

\* The completion is a JSON object with the keys of the enterprise format.
\* The JSON completions of the model are objects written on one line.
IsEnterpriseJson(response_text) ==
  /\ Contains(response_text, "{")
  /\ EndsWith(response_text, "}")
  /\ Contains(response_text, "\"overall_score\"")
  /\ Contains(response_text, "\"security_findings\"")

\* lightweight_handler.parse_enterprise_bedrock_response: the JSON object of
\* the completion as it is, or create_enterprise_fallback_response, whose
\* overall_score is the score read from the text, in hundredths.
parse_enterprise_bedrock_response(response_text, architecture_info) ==
  IF IsEnterpriseJson(response_text)
  THEN [analysis_type |-> "enterprise", json |-> response_text,
        components_analyzed |-> architecture_info.component_count]
  ELSE [analysis_type |-> "enterprise_fallback",
        overall_score |-> extract_score_from_text(response_text)]

\* call_bedrock_agent: the delay slept before the retry that follows the
\* given attempt, in tenths of a second; jitter is random.uniform(0, 1).
Jitters == {0, 5, 10}
Delay(i, jitter) == base_delay * 10 * (2 ^ i) + jitter

\* A variant of LoopTurn that sleeps and continues after every throttled
\* turn, the last one included.
LoopTurn_AlwaysRetrying(i, outcome, architecture_info) ==
  IF ~outcome.raised
  THEN [returns |-> TRUE,
        value |-> parse_enterprise_bedrock_response(outcome.text, architecture_info)]
  ELSE IF ErrorClass(outcome.text) = "throttling"
       THEN [returns |-> FALSE]
       ELSE IF ErrorClass(outcome.text) = "permission"
            THEN [returns |-> TRUE,
                  value |-> create_permission_analysis_response(architecture_info,
                                                                outcome.text)]
            ELSE [returns |-> TRUE,
                  value |-> create_fallback_analysis_response(architecture_info)
                              @@ [fallback_reason |-> outcome.text]]

\* call_bedrock_agent: one turn of `for attempt in range(max_retries + 1)`
\* with the given outcome of invoke_agent: what the turn returns, or that it
\* sleeps and continues.
LoopTurn(i, outcome, architecture_info) ==
  IF ~outcome.raised
  THEN [returns |-> TRUE,
        value |-> parse_enterprise_bedrock_response(outcome.text, architecture_info)]
  ELSE IF ErrorClass(outcome.text) = "throttling"
       THEN IF i < max_retries
            THEN [returns |-> FALSE]
            ELSE [returns |-> TRUE,
                  value |-> create_throttling_analysis_response(architecture_info,
                                                                outcome.text)]
       ELSE IF ErrorClass(outcome.text) = "permission"
            THEN [returns |-> TRUE,
                  value |-> create_permission_analysis_response(architecture_info,
                                                                outcome.text)]
            ELSE [returns |-> TRUE,
                  value |-> create_fallback_analysis_response(architecture_info)
                              @@ [fallback_reason |-> outcome.text]]

\* What invoke_agent does: a completion, or an exception with its message.
AgentOutcomes ==
  { Completion("{\"overall_score\": 8.5, \"security_findings\": []}"),
    Completion("Overall score: 150"),
    Completion(""),
    Raised("ThrottlingException: Rate exceeded"),
    Raised("ServiceQuotaExceededException"),
    Raised("Failed to generate response"),
    Raised("Access denied: quota exceeded"),
    Raised("AccessDeniedException"),
    Raised("Missing Permission bedrock:InvokeAgent"),
    Raised("Read timeout on endpoint") }

\* The uploads of the model: the file name and the text of the body.
FileNames == {"arch.drawio", "arch.xml", "arch.png"}
Bodies == {"", "PNG", "<?xml version=\"1.0\"?><mxfile></mxfile>"}
UploadRequests == [file_name : FileNames, body : Bodies]

\* handle_file_upload: the body holds the start of an XML document
HasXml(event) == Contains(event.body, "<?xml")

\* The diagrams uploaded in the bodies that hold XML.
UploadedDocuments ==
  { Malformed,
    [wellformed |-> TRUE, diagrams |-> <<>>, cells |-> <<>>],
    [wellformed |-> TRUE, diagrams |-> <<>>, cells |-> <<Shape("3", "RDS Database")>>] }

InitUpload ==
  /\ NoClassification
  /\ request \in UploadRequests
  /\ doc \in IF HasXml(request) THEN UploadedDocuments
             ELSE {[wellformed |-> TRUE, diagrams |-> <<>>, cells |-> <<>>]}
  /\ program = "lightweight_handler"
  /\ parsed = NotParsed
  /\ description = NotRun
  /\ results = NoResults
  /\ earlier = NotRun
  /\ pc = "validate"
  /\ attempt = 0
  /\ invocations = <<>>
  /\ sleeps = <<>>
  /\ allocated = 0
  /\ stored = 0
  /\ record = "none"
  /\ writes = <<>>
  /\ response = NoResponse

\* handle_file_upload, steps 1 to 6: a body without XML is answered 400.
RejectUpload ==
  /\ program = "lightweight_handler"
  /\ pc = "validate"
  /\ ~HasXml(request)
  /\ response' =
       [statusCode |-> 400,
        error |-> IF ~(EndsWith(request.file_name, ".xml")
                       \/ EndsWith(request.file_name, ".drawio"))
                  THEN "Invalid File Type" ELSE "File Parse Error"]
  /\ pc' = "done"
  /\ UNCHANGED <<classifierVars, uploadVars, request, attempt, invocations, sleeps,
                 allocated, stored, record, writes>>

\* handle_file_upload, steps 7 to 11: the analysis id is generated, the file
\* is put into the bucket and parsed.  put_object raises or not.
StoreUpload ==
  /\ program = "lightweight_handler"
  /\ pc = "validate"
  /\ HasXml(request)
  /\ allocated' = allocated + 1
  /\ \E raises \in BOOLEAN :
       IF raises
       THEN /\ pc' = "except"
            /\ response' = [statusCode |-> 0, e |-> "put_object"]
            /\ UNCHANGED <<stored, parsed, attempt>>
       ELSE /\ stored' = stored + 1
            /\ parsed' = parse_uploaded_xml(doc)
            /\ attempt' = 0
            /\ pc' = "call_bedrock_agent"
            /\ UNCHANGED response
  /\ UNCHANGED <<classifierVars, doc, program, description, results, earlier,
                 request, invocations, sleeps, record, writes>>

\* call_bedrock_agent: one turn of the loop.  A throttled turn that is not
\* the last sleeps and continues; when the range is exhausted the function
\* returns the throttling response after the loop.
InvokeAgent ==
  /\ program = "lightweight_handler"
  /\ pc = "call_bedrock_agent"
  /\ attempt <= max_retries
  /\ \E outcome \in AgentOutcomes, jitter \in Jitters :
       LET turn == LoopTurn(attempt, outcome, parsed)
       IN  /\ invocations' = Append(invocations, outcome)
           /\ IF turn.returns
              THEN /\ results' = turn.value
                   /\ pc' = "put_item"
                   /\ UNCHANGED <<attempt, sleeps>>
              ELSE /\ sleeps' = Append(sleeps, Delay(attempt, jitter))
                   /\ attempt' = attempt + 1
                   /\ IF attempt + 1 <= max_retries
                      THEN UNCHANGED <<pc, results>>
                      ELSE /\ results' = create_throttling_analysis_response(
                                           parsed, "Max retries exceeded")
                           /\ pc' = "put_item"
  /\ UNCHANGED <<classifierVars, doc, program, parsed, description, earlier,
                 request, allocated, stored, record, writes, response>>

\* A variant of StoreCompleted that answers 200 whether put_item raised or
\* not.
StoreCompleted_AnsweringWhateverHappened ==
  /\ program = "lightweight_handler"
  /\ pc = "put_item"
  /\ writes' = Append(writes, "completed")
  /\ \E raises \in BOOLEAN :
       record' = IF raises THEN record ELSE "completed"
  /\ response' = [statusCode |-> 200, status |-> "completed"]
  /\ pc' = "done"
  /\ UNCHANGED <<classifierVars, uploadVars, request, attempt, invocations, sleeps,
                 allocated, stored>>

\* handle_file_upload: table.put_item of the record with status 'completed',
\* then the 200 response.  put_item raises or not.
StoreCompleted ==
  /\ program = "lightweight_handler"
  /\ pc = "put_item"
  /\ writes' = Append(writes, "completed")
  /\ \E raises \in BOOLEAN :
       IF raises
       THEN /\ pc' = "except"
            /\ response' = [statusCode |-> 0, e |-> "put_item"]
            /\ UNCHANGED record
       ELSE /\ record' = "completed"
            /\ response' = [statusCode |-> 200, status |-> "completed"]
            /\ pc' = "done"
  /\ UNCHANGED <<classifierVars, uploadVars, request, attempt, invocations, sleeps,
                 allocated, stored>>

\* handle_file_upload: `except Exception as e`: the record with status
\* 'failed' is put, a failure of that put_item is passed over, then the 500
\* response.
StoreFailed ==
  /\ program = "lightweight_handler"
  /\ pc = "except"
  /\ writes' = Append(writes, "failed")
  /\ \E raises \in BOOLEAN :
       record' = IF raises THEN record ELSE "failed"
  /\ response' = [statusCode |-> 500, error |-> "Analysis Failed"]
  /\ pc' = "done"
  /\ UNCHANGED <<classifierVars, uploadVars, request, attempt, invocations, sleeps,
                 allocated, stored>>

NextUpload ==
  \/ RejectUpload
  \/ StoreUpload
  \/ InvokeAgent
  \/ StoreCompleted
  \/ StoreFailed

SpecUpload == InitUpload /\ [][NextUpload]_vars

\* The handler runs to its return.
SpecUploadFair == SpecUpload /\ WF_vars(NextUpload)

\* ------------------------------------------------------------------------
\* processor.process_ai_results: the AI output made into AnalysisResults
\* (checked under SpecResults).  Scores are in hundredths.
\* ------------------------------------------------------------------------

\* Python values found in the AI output: a float, a string, None, nan, and
\* a key that is absent.
PyFloat(n) == [kind |-> "float", value |-> n]
PyStr(text) == [kind |-> "str", text |-> text]
PyNone == [kind |-> "None"]
PyNan == [kind |-> "nan"]
Absent == [kind |-> "absent"]

\* dict.get(key, default) for a key that is absent or present
GetOr(v, default) == IF v = Absent THEN default ELSE v

\* Python's float(v): the number, or that it raises.  A string is converted
\* when the whole of it is a decimal number.
float(v) ==
  CASE v.kind = "float" -> [raised |-> FALSE, nan |-> FALSE, value |-> v.value]
    [] v.kind = "nan" -> [raised |-> FALSE, nan |-> TRUE, value |-> 0]
    [] v.kind = "str" ->
         LET number == NumberAt(v.text, 1)
         IN  IF number.found /\ number.next = Len(v.text) + 1
             THEN [raised |-> FALSE, nan |-> FALSE, value |-> number.value]
             ELSE [raised |-> TRUE]
    [] OTHER -> [raised |-> TRUE]

\* models/analysis.py: Field(..., ge=0.0, le=10.0) accepts the converted
\* score.
FieldAccepts(score) ==
  ~score.raised /\ ~score.nan /\ score.value >= 0 /\ score.value <= 1000

\* models/analysis.py: IssueSeverity
IssueSeverity == {"HIGH", "MEDIUM", "LOW"}

\* process_ai_results: the body of `for issue_data in ...`: the issue is
\* appended unless making it raised.
RECURSIVE ProcessedIssues(_, _)
ProcessedIssues(issues, i) ==
  IF i > Len(issues) THEN <<>>
  ELSE LET issue_data == issues[i]
           severity == GetOr(issue_data.severity, PyStr("MEDIUM"))
       IN  (IF severity.kind = "str" /\ severity.text \in IssueSeverity
            THEN << [severity |-> severity.text, component |-> issue_data.component] >>
            ELSE <<>>)
           \o ProcessedIssues(issues, i + 1)

\* process_ai_results: the results returned by its except clause
FallbackResults ==
  [overall_score |-> 500,
   security |-> [score |-> 500,
                 issues |-> << [severity |-> "MEDIUM", component |-> "Analysis System"] >>,
                 recommendations |-> <<"Manual architecture review recommended">>]]

\* A variant of process_ai_results that builds the results without the
\* Field constraints on the two scores.
process_ai_results_WithoutFieldConstraints(ai_results) ==
  IF ai_results.kind # "dict" THEN FallbackResults
  ELSE LET security_score == float(GetOr(ai_results.security_score, PyFloat(500)))
           overall_score == float(GetOr(ai_results.overall_score, PyFloat(500)))
       IN  IF security_score.raised \/ overall_score.raised
           THEN FallbackResults
           ELSE [overall_score |-> overall_score.value,
                 security |-> [score |-> security_score.value,
                               issues |-> ProcessedIssues(ai_results.issues, 1),
                               recommendations |-> <<>>]]

\* processor.process_ai_results(ai_results, architecture_data).  An AI
\* output is written [kind, overall_score, security_score, issues] for
\* ai_results['results'] with its security part.
process_ai_results(ai_results) ==
  IF ai_results.kind # "dict" THEN FallbackResults
  ELSE LET security_score == float(GetOr(ai_results.security_score, PyFloat(500)))
           overall_score == float(GetOr(ai_results.overall_score, PyFloat(500)))
       IN  IF ~FieldAccepts(security_score) \/ ~FieldAccepts(overall_score)
           THEN FallbackResults
           ELSE [overall_score |-> overall_score.value,
                 security |-> [score |-> security_score.value,
                               issues |-> ProcessedIssues(ai_results.issues, 1),
                               recommendations |-> <<>>]]

\* The scores and the issues of the AI outputs of the model.
AiScores ==
  { PyFloat(0), PyFloat(750), PyFloat(1000), PyFloat(1050), PyFloat(-100),
    PyStr("8.5"), PyStr("high"), PyNone, PyNan, Absent }

AiIssue(severity, component) == [severity |-> severity, component |-> component]

AiIssueLists ==
  { <<>>,
    << AiIssue(PyStr("HIGH"), "RDS") >>,
    << AiIssue(PyStr("CRITICAL"), "S3") >>,
    << AiIssue(PyStr("HIGH"), "RDS"), AiIssue(PyStr("CRITICAL"), "S3"),
       AiIssue(PyStr("LOW"), "EC2") >>,
    << AiIssue(PyStr("high"), "RDS"), AiIssue(Absent, "VPC") >>,
    << AiIssue(PyNone, "IAM"), AiIssue(PyStr("MEDIUM"), "EC2") >> }

AiResults ==
  {[kind |-> "None"]} \cup
  [kind : {"dict"}, overall_score : AiScores, security_score : AiScores,
   issues : AiIssueLists]

\* The AI output a remote call returned.
AiReturned(value) == [raised |-> FALSE, value |-> value]

InitResults ==
  /\ NoClassification
  /\ NoUpload
  /\ request = "none"
  /\ pc = "process_ai_results"
  /\ attempt = 0
  /\ invocations \in {<<AiReturned(ai_results)>> : ai_results \in AiResults}
  /\ sleeps = <<>>
  /\ allocated = 0
  /\ stored = 0
  /\ record = "processing"
  /\ writes = <<>>
  /\ response = NoResponse

\* process_analysis: analysis_results = process_ai_results(ai_results, ...)
ProcessAiResults ==
  /\ pc = "process_ai_results"
  /\ results' = process_ai_results(invocations[1].value)
  /\ pc' = "update_analysis_status"
  /\ UNCHANGED <<classifierVars, doc, program, parsed, description, earlier,
                 request, attempt, invocations, sleeps, allocated, stored, record,
                 writes, response>>

NextResults == ProcessAiResults

SpecResults == InitResults /\ [][NextResults]_vars

\* ------------------------------------------------------------------------
\* The background processors: processor.handler with process_analysis and
\* BedrockService.analyze_architecture, and lightweight_processor.handler
\* (checked under SpecProcess)
\* ------------------------------------------------------------------------

\* The events the processors are invoked with, and whether the Bedrock
\* agent ids are set in the environment of processor.py.
ProcessEvents ==
  [analysis_id : {"a1"}, s3_key : {"uploads/a1/arch.drawio", None},
   configured : BOOLEAN]

\* What the remote calls of the processors return: an AI output.
ProcessAiOutputs ==
  { [kind |-> "dict", overall_score |-> PyFloat(750), security_score |-> PyFloat(700),
     issues |-> << AiIssue(PyStr("HIGH"), "RDS") >>],
    [kind |-> "dict", overall_score |-> PyFloat(1050), security_score |-> Absent,
     issues |-> <<>>] }

\* BedrockService.analyze_architecture: the message of the exception it
\* raises when the agent and the direct model have both failed.
AiAnalysisFailed == "AI analysis failed"

InitProcess ==
  /\ NoClassification
  /\ program \in {"processor", "lightweight_processor"}
  /\ request \in {e \in ProcessEvents : program = "lightweight_processor" => e.configured}
  /\ doc \in UploadedDocuments
  /\ parsed = NotParsed
  /\ description = NotRun
  /\ results = NoResults
  /\ earlier = NotRun
  /\ pc = "handler"
  /\ attempt = 0
  /\ invocations = <<>>
  /\ sleeps = <<>>
  /\ allocated = 1
  /\ stored = 1
  /\ record = "pending"
  /\ writes = <<>>
  /\ response = NoResponse

\* handler: an event without its parameters.  processor.handler raises
\* ValueError into its own except clause and returns 500;
\* lightweight_processor.handler returns 400.
RunWithoutParameters ==
  /\ pc = "handler"
  /\ request.s3_key = None
  /\ response' = IF program = "processor"
                 THEN [statusCode |-> 500, error |-> "Missing required parameters"]
                 ELSE [statusCode |-> 400, error |-> "Missing required parameters"]
  /\ pc' = "done"
  /\ UNCHANGED <<classifierVars, uploadVars, request, attempt, invocations, sleeps,
                 allocated, stored, record, writes>>

\* The first statement of the try block: the status is set to 'processing'.
\* The update raises or not.
RunSetProcessing ==
  /\ pc = "handler"
  /\ request.s3_key # None
  /\ writes' = Append(writes, "processing")
  /\ \E raises \in BOOLEAN :
       IF raises
       THEN /\ pc' = "except"
            /\ response' = [statusCode |-> 0, e |-> "update_analysis_status"]
            /\ UNCHANGED record
       ELSE /\ record' = "processing"
            /\ pc' = "get_file"
            /\ UNCHANGED response
  /\ UNCHANGED <<classifierVars, uploadVars, request, attempt, invocations, sleeps,
                 allocated, stored>>

\* The file is read from the bucket and parsed.  The download raises or
\* not; xml_parser.parse raises for a document it cannot parse, while
\* parse_drawio_xml returns an empty result for it.
RunGetAndParse ==
  /\ pc = "get_file"
  /\ \E raises \in BOOLEAN :
       LET architecture_data == IF program = "processor" THEN DrawIOParser_parse(doc)
                                ELSE parse_drawio_xml(doc)
       IN  IF raises
           THEN /\ pc' = "except"
                /\ response' = [statusCode |-> 0, e |-> "get_file_from_s3"]
                /\ UNCHANGED parsed
           ELSE IF architecture_data.status = "raised"
           THEN /\ pc' = "except"
                /\ response' = [statusCode |-> 0, e |-> architecture_data.error]
                /\ UNCHANGED parsed
           ELSE /\ parsed' = architecture_data
                /\ pc' = "analyze"
                /\ UNCHANGED response
  /\ UNCHANGED <<classifierVars, serviceVarsButPcResponse, doc, program, description,
                 results, earlier>>

\* process_analysis without the agent ids: create_fallback_analysis.
RunFallbackAnalysis ==
  /\ pc = "analyze"
  /\ program = "processor"
  /\ ~request.configured
  /\ results' = create_fallback_analysis(parsed)
  /\ pc' = "update_completed"
  /\ UNCHANGED <<classifierVars, serviceVarsButPcResponse, response, doc, program,
                 parsed, description, earlier>>

\* process_analysis with the agent ids: BedrockService.analyze_architecture
\* invokes the agent and, when that raises, the model directly; when that
\* raises too it raises "AI analysis failed" to process_analysis.  What it
\* returns goes through process_ai_results.
RunAnalyzeArchitecture ==
  /\ pc = "analyze"
  /\ program = "processor"
  /\ request.configured
  /\ \E agent \in {Raised("Bedrock agent invocation failed")}
                    \cup {AiReturned(v) : v \in ProcessAiOutputs},
        direct \in {Raised("Model invocation failed")}
                     \cup {AiReturned(v) : v \in ProcessAiOutputs} :
       /\ invocations' = IF agent.raised THEN <<agent, direct>> ELSE <<agent>>
       /\ LET result == IF agent.raised THEN direct ELSE agent
          IN  IF result.raised
              THEN /\ pc' = "except"
                   /\ response' = [statusCode |-> 0, e |-> AiAnalysisFailed]
                   /\ UNCHANGED results
              ELSE /\ results' = process_ai_results(result.value)
                   /\ pc' = "update_completed"
                   /\ UNCHANGED response
  /\ UNCHANGED <<classifierVars, doc, program, parsed, description, earlier,
                 request, attempt, sleeps, allocated, stored, record, writes>>

\* lightweight_processor.call_bedrock_agent_detailed: the agent is invoked
\* once; when that raises, create_fallback_analysis is returned.
RunCallBedrockAgentDetailed ==
  /\ pc = "analyze"
  /\ program = "lightweight_processor"
  /\ \E outcome \in AgentOutcomes :
       /\ invocations' = <<outcome>>
       /\ results' = IF outcome.raised
                     THEN LightweightProcessor_create_fallback_analysis(parsed)
                     ELSE [status |-> "completed", analysis_type |-> "ai",
                           text |-> outcome.text]
  /\ pc' = "update_completed"
  /\ UNCHANGED <<classifierVars, doc, program, parsed, description, earlier,
                 request, attempt, sleeps, allocated, stored, record, writes, response>>

\* The last statements of the try block: the status is set to 'completed'
\* with the results, then 200 is returned.  The update raises or not.
RunSetCompleted ==
  /\ pc = "update_completed"
  /\ writes' = Append(writes, "completed")
  /\ \E raises \in BOOLEAN :
       IF raises
       THEN /\ pc' = "except"
            /\ response' = [statusCode |-> 0, e |-> "update_analysis_status"]
            /\ UNCHANGED record
       ELSE /\ record' = "completed"
            /\ response' = [statusCode |-> 200, error |-> ""]
            /\ pc' = "done"
  /\ UNCHANGED <<classifierVars, uploadVars, request, attempt, invocations, sleeps,
                 allocated, stored>>

\* The except clause: the status is set to 'failed', then 500 is returned.
\* When this update raises, process_analysis leaves by the exception and
\* processor.handler returns 500 from its own except clause;
\* lightweight_processor.handler prints the failure and returns 500.
RunSetFailed ==
  /\ pc = "except"
  /\ program \in {"processor", "lightweight_processor"}
  /\ writes' = Append(writes, "failed")
  /\ \E raises \in BOOLEAN :
       record' = IF raises THEN record ELSE "failed"
  /\ response' = [statusCode |-> 500, error |-> response.e]
  /\ pc' = "done"
  /\ UNCHANGED <<classifierVars, uploadVars, request, attempt, invocations, sleeps,
                 allocated, stored>>

NextProcess ==
  \/ RunWithoutParameters
  \/ RunSetProcessing
  \/ RunGetAndParse
  \/ RunFallbackAnalysis
  \/ RunAnalyzeArchitecture
  \/ RunCallBedrockAgentDetailed
  \/ RunSetCompleted
  \/ RunSetFailed

SpecProcess == InitProcess /\ [][NextProcess]_vars

\* ------------------------------------------------------------------------
\* The API of backend: POST /api/analyze (api.analyze_architecture with
\* invoke_processor_lambda), checked under SpecApi
\* ------------------------------------------------------------------------

\* analyze_architecture: the size limit of an upload, in bytes
MaxFileSize == 10485760

\* The uploads of the model: the name of the file and its size in bytes.
ApiRequests ==
  [file_name : {"arch.drawio", "arch.xml", "ARCH.DRAWIO", "arch.png", ""},
   size : {1024, MaxFileSize, MaxFileSize + 1}]

\* analyze_architecture: the description made at once; any exception of
\* parse or describe is replaced by the fixed text.
ApiDescription(document) ==
  LET architecture_data == DrawIOParser_parse(document)
  IN  IF architecture_data.status = "raised"
      THEN "Architecture uploaded successfully. Detailed analysis in progress..."
      ELSE generate_architecture_description(architecture_data)

\* analyze_architecture: the file is accepted by the validation.
ApiAccepts(upload) ==
  /\ upload.file_name # ""
  /\ EndsWith(upload.file_name, ".xml") \/ EndsWith(upload.file_name, ".drawio")
  /\ upload.size <= MaxFileSize

\* What lambda_client.invoke does: the asynchronous invocation is accepted,
\* or it raises.
LambdaOutcomes ==
  { [raised |-> FALSE, text |-> "202 Accepted"],
    Raised("ResourceNotFoundException: Function not found"),
    Raised("AccessDeniedException"),
    Raised("TooManyRequestsException: Rate exceeded") }

InitApi ==
  /\ NoClassification
  /\ program = "api"
  /\ request \in ApiRequests
  /\ doc \in UploadedDocuments
  /\ parsed = NotParsed
  /\ description = NotRun
  /\ results = NoResults
  /\ earlier = NotRun
  /\ pc = "validate"
  /\ attempt = 0
  /\ invocations = <<>>
  /\ sleeps = <<>>
  /\ allocated = 0
  /\ stored = 0
  /\ record = "none"
  /\ writes = <<>>
  /\ response = NoResponse

\* analyze_architecture: HTTPException 400 for a file of another type or
\* above the size limit.
ApiReject ==
  /\ program = "api"
  /\ pc = "validate"
  /\ ~ApiAccepts(request)
  /\ response' = [statusCode |-> 400, status |-> "", message |-> ""]
  /\ pc' = "done"
  /\ UNCHANGED <<classifierVars, uploadVars, serviceVarsButPcResponse>>

\* analyze_architecture: the analysis id is generated, the description is
\* made and the file is uploaded to the bucket.  upload_file_to_s3 raises or
\* not; an exception is answered with HTTPException 500.
ApiUpload ==
  /\ program = "api"
  /\ pc = "validate"
  /\ ApiAccepts(request)
  /\ allocated' = allocated + 1
  /\ description' = ApiDescription(doc)
  /\ \E raises \in BOOLEAN :
       IF raises
       THEN /\ response' = [statusCode |-> 500, status |-> "", message |-> ""]
            /\ pc' = "done"
            /\ UNCHANGED stored
       ELSE /\ stored' = stored + 1
            /\ pc' = "save_analysis_record"
            /\ UNCHANGED response
  /\ UNCHANGED <<classifierVars, doc, program, parsed, results, earlier,
                 request, attempt, invocations, sleeps, record, writes>>

\* analyze_architecture: AnalysisRecord.create_new and save_analysis_record:
\* the record is saved with status 'pending'.  The save raises or not.
ApiSaveRecord ==
  /\ program = "api"
  /\ pc = "save_analysis_record"
  /\ writes' = Append(writes, "pending")
  /\ \E raises \in BOOLEAN :
       IF raises
       THEN /\ response' = [statusCode |-> 500, status |-> "", message |-> ""]
            /\ pc' = "done"
            /\ UNCHANGED record
       ELSE /\ record' = "pending"
            /\ pc' = "invoke_processor_lambda"
            /\ UNCHANGED response
  /\ UNCHANGED <<classifierVars, uploadVars, request, attempt, invocations, sleeps,
                 allocated, stored>>

\* The response analyze_architecture returns after invoke_processor_lambda.
AnalysisStarted ==
  [statusCode |-> 200, status |-> "pending", message |-> "Analysis started successfully"]

\* invoke_processor_lambda and the return of analyze_architecture.  When
\* lambda_client.invoke raises, the except clause of invoke_processor_lambda
\* sets the record to 'failed' and returns; when that update raises too, the
\* exception is answered with HTTPException 500.
ApiInvokeProcessor ==
  /\ program = "api"
  /\ pc = "invoke_processor_lambda"
  /\ \E outcome \in LambdaOutcomes, raises \in BOOLEAN :
       /\ invocations' = Append(invocations, outcome)
       /\ IF ~outcome.raised
          THEN /\ response' = AnalysisStarted
               /\ UNCHANGED <<record, writes>>
          ELSE /\ writes' = Append(writes, "failed")
               /\ IF raises
                  THEN /\ response' = [statusCode |-> 500, status |-> "", message |-> ""]
                       /\ UNCHANGED record
                  ELSE /\ record' = "failed"
                       /\ response' = AnalysisStarted
  /\ pc' = "done"
  /\ UNCHANGED <<classifierVars, uploadVars, request, attempt, sleeps, allocated, stored>>

NextApi ==
  \/ ApiReject
  \/ ApiUpload
  \/ ApiSaveRecord
  \/ ApiInvokeProcessor

SpecApi == InitApi /\ [][NextApi]_vars

\* ------------------------------------------------------------------------
\* Properties of the extractors (checked under Spec)
\* ------------------------------------------------------------------------

\* The parse of the program that handles the upload.
ParseOf(prog, document) ==
  CASE prog = "lightweight_handler" -> parse_uploaded_xml(document)
    [] prog = "lightweight_processor" -> parse_drawio_xml(document)
    [] OTHER -> DrawIOParser_parse(document)

\* The components of a parse result, whichever copy produced it.
Components(p) ==
  IF p.status # "returned" THEN <<>>
  ELSE IF "services" \in DOMAIN p THEN p.services ELSE p.components

ComponentIds(p) == {Components(p)[k].id : k \in 1..Len(Components(p))}

\* The displayed text a component carries.
ComponentText(c) == IF "label" \in DOMAIN c THEN c.label ELSE c.name

\* The kind a component was classified as.
ComponentKind(c) == IF "type" \in DOMAIN c THEN c.type ELSE c.service_type

Returned == parsed.status = "returned"

\* A cell carrying non-empty label text whose id is not reserved.
IsLabelledShape(cell) == Truthy(cell.value) /\ cell.id \notin ReservedIds

\* A cell carrying a non-empty source and a non-empty target.
HasBothEnds(cell) == Truthy(cell.source) /\ Truthy(cell.target)

\* C1: a cell whose id is "0" or "1" never appears among the components
\* returned by parse, whatever its label.
C1_ReservedIdsExcluded ==
  Returned => \A k \in 1..Len(Components(parsed)) :
                Components(parsed)[k].id \notin ReservedIds

\* C2: every cell with non-empty label text and a non-reserved id appears as
\* exactly one component of the result (as many components carry its id and
\* text as cells of the document do), also when no keyword matches.
C2_EveryLabelledShapeIsAComponent ==
  Returned =>
    \A i \in 1..Len(doc.cells) :
      IsLabelledShape(doc.cells[i]) =>
        Cardinality({k \in 1..Len(Components(parsed)) :
                       /\ Components(parsed)[k].id = doc.cells[i].id
                       /\ ComponentText(Components(parsed)[k]) = doc.cells[i].value})
        = Cardinality({j \in 1..Len(doc.cells) :
                         /\ IsLabelledShape(doc.cells[j])
                         /\ doc.cells[j].id = doc.cells[i].id
                         /\ doc.cells[j].value = doc.cells[i].value})

\* The <<source, target>> pairs of the cells with both ends, in document
\* order.
RECURSIVE EndsOfCells(_, _)
EndsOfCells(cells, i) ==
  IF i > Len(cells) THEN <<>>
  ELSE (IF HasBothEnds(cells[i]) THEN << <<cells[i].source, cells[i].target>> >> ELSE <<>>)
       \o EndsOfCells(cells, i + 1)

\* C3: a cell is returned as a connection iff it carries a non-empty source
\* and a non-empty target; no other attribute decides it.
C3_ConnectionIffBothEnds ==
  Returned =>
    [k \in 1..Len(parsed.connections) |->
       <<parsed.connections[k].source, parsed.connections[k].target>>]
    = EndsOfCells(doc.cells, 1)

\* C4: for a document that is not well-formed, parse raises an error to its
\* caller and never returns a graph.
C4_MalformedDocumentRaises ==
  (~doc.wellformed /\ parsed # NotParsed) => parsed.status = "raised"

\* The document with the ends of its i-th cell taken away.
WithoutEdge(document, i) ==
  [document EXCEPT !.cells[i] = Unconnected(document.cells[i])]

\* An end of the cell names no extracted component.
IsDangling(cell) ==
  cell.source \notin ComponentIds(parsed) \/ cell.target \notin ComponentIds(parsed)

\* C5: an edge one of whose ends names no extracted component does not make
\* parse fail, is kept in the connection list, and adds no component: the
\* component ids are those of the document without that edge.
C5_DanglingEdgesTolerated ==
  (doc.wellformed /\ parsed # NotParsed) =>
    \A i \in 1..Len(doc.cells) :
      (HasBothEnds(doc.cells[i]) /\ IsDangling(doc.cells[i])) =>
        /\ ParseOf(program, WithoutEdge(doc, i)).status = parsed.status
        /\ Returned =>
             /\ \E k \in 1..Len(parsed.connections) :
                  /\ parsed.connections[k].source = doc.cells[i].source
                  /\ parsed.connections[k].target = doc.cells[i].target
             /\ ComponentIds(ParseOf(program, WithoutEdge(doc, i))) = ComponentIds(parsed)

\* C6: the component ids of a returned graph are pairwise distinct.
C6_ComponentIdsDistinct ==
  Returned =>
    \A j, k \in 1..Len(Components(parsed)) :
      j # k => Components(parsed)[j].id # Components(parsed)[k].id

\* ------------------------------------------------------------------------
\* Properties of the classifiers (checked under SpecClassify)
\* ------------------------------------------------------------------------

\* No keyword of the table occurs in the lower-cased label.
NoKeywordMatches(table, text) ==
  \A i \in 1..Len(table) :
    \A j \in 1..Len(table[i].keywords) : ~Contains(Lower(text), table[i].keywords[j])

KindsOf(table) == {table[i].kind : i \in 1..Len(table)}

\* The keyword table of a classifier that takes a style hint.
TableOf(c) == IF c = "handler" THEN HandlerKeywordTable ELSE ProcessorKeywordTable

StyleClassifiers == {"handler", "processor"}

\* C7 as stated: when no keyword set matches the label, the result depends
\* on the style hint alone: the generic kind if the hint contains the
\* provider marker, Unknown otherwise.
C7_FallbackByStyleAlone ==
  \A c \in StyleClassifiers :
    (cls[c] # NotRun /\ NoKeywordMatches(TableOf(c), label)) =>
      cls[c] = IF Contains(Lower(style), "aws") THEN "AWS Service" ELSE "Unknown"

\* C7 as amended: classify always yields a kind, and when no keyword set
\* matches the label the result is the generic kind if the style hint
\* contains "aws" or the label contains "amazon" (both case-insensitively),
\* Unknown otherwise; so classify("", "") is Unknown.
C7_FallbackByStyleOrAmazon ==
  \A c \in StyleClassifiers :
    cls[c] # NotRun =>
      /\ cls[c] \in KindsOf(TableOf(c)) \cup {"AWS Service", "Unknown"}
      /\ NoKeywordMatches(TableOf(c), label) =>
           cls[c] = IF Contains(Lower(style), "aws") \/ Contains(Lower(label), "amazon")
                    THEN "AWS Service" ELSE "Unknown"
      /\ (label = "" /\ style = "") => cls[c] = "Unknown"

\* A label without keyword and without "amazon" was classified by both
\* copies through an upper-case marker in the style hint alone.
C7_Witness ==
  /\ label = "Client"
  /\ style = "sketch=0;AWS"
  /\ NoKeywordMatches(HandlerKeywordTable, label)
  /\ NoKeywordMatches(ProcessorKeywordTable, label)
  /\ cls["handler"] = "AWS Service"
  /\ cls["processor"] = "AWS Service"

\* The kind whose keyword list holds the keyword, by table order.
ListedKinds(table, keyword) ==
  {table[i].kind : i \in {n \in 1..Len(table) :
                            \E j \in 1..Len(table[n].keywords) : table[n].keywords[j] = keyword}}

\* C8: "ALB" and "Application Load Balancer" classify to the same
\* load-balancer kind, "Amazon S3 Bucket" to the object-storage kind, and
\* every keyword listed for a kind classifies to that kind (empty style hint).
C8_ListedNamesClassifyToTheirKind ==
  style = "" =>
    /\ cls["handler"] # NotRun =>
         /\ label \in {"ALB", "Application Load Balancer"} => cls["handler"] = "Load Balancer"
         /\ label = "Amazon S3 Bucket" => cls["handler"] = "S3"
         /\ \A kind \in ListedKinds(HandlerKeywordTable, label) : cls["handler"] = kind
    /\ cls["drawio"] # NotRun =>
         /\ label \in {"ALB", "Application Load Balancer"} => cls["drawio"] = "elb"
         /\ label = "Amazon S3 Bucket" => cls["drawio"] = "s3"
         /\ \A kind \in ListedKinds(aws_services, label) : cls["drawio"] = kind

\* ------------------------------------------------------------------------
\* Properties of the analyzers (checked under Spec)
\* ------------------------------------------------------------------------

Analyzed == results # NoResults

Severities(issues) == [k \in 1..Len(issues) |-> issues[k].severity]

IssueTexts(issues) == {issues[k].issue : k \in 1..Len(issues)}

\* C9: for a graph with zero components analyze returns score 1.0 and
\* exactly two findings, one HIGH (no services detected) and one MEDIUM
\* (insufficient diagram detail).
C9_EmptyGraphTwoFindings ==
  (Analyzed /\ Returned /\ Len(Components(parsed)) = 0) =>
    /\ results.score = 10
    /\ results.overall_score = 10
    /\ results.issues = <<NoServicesIssue, InsufficientDetailIssue>>

\* C10: for a graph with one or two components analyze returns score 3.0
\* and its findings include the architecture-incompleteness finding and the
\* missing-connections finding, whatever else the graph holds.
C10_SmallGraphSentinel ==
  (Analyzed /\ Returned /\ Len(Components(parsed)) \in {1, 2}) =>
    /\ results.score = 30
    /\ results.overall_score = 30
    /\ LimitedServicesIssue.issue \in IssueTexts(results.issues)
    /\ FewConnectionsIssue.issue \in IssueTexts(results.issues)

\* ------------------------------------------------------------------------
\* Properties of the analyzer's score (checked under SpecAnalyze)
\* ------------------------------------------------------------------------

\* The services whose label holds a public, internet or external marker.
PublicCount(services) ==
  Cardinality({k \in 1..Len(services) :
                 LET lbl == Lower(services[k].label)
                 IN  Contains(lbl, "public") \/ Contains(lbl, "internet")
                       \/ Contains(lbl, "external")})

\* C11: for every graph the score analyze returns lies between 0 and 10
\* (0 and 100 tenths), the overall score as well.
C11_ScoreWithinBounds ==
  Analyzed =>
    /\ 0 <= results.score /\ results.score <= 100
    /\ 0 <= results.overall_score /\ results.overall_score <= 100

\* A graph of seven services, five of them public, was scored by the
\* point model with the public penalty at its cap.
C11_Witness ==
  /\ Analyzed
  /\ Returned
  /\ Len(parsed.services) = MaxNodes + 1
  /\ PublicCount(parsed.services) >= 5
  /\ results.score = 60

\* The storage services whose label holds neither "private" nor
\* "encrypted".
UnencryptedStorageCount(services) ==
  Cardinality({k \in 1..Len(services) :
                 LET lbl == Lower(services[k].label)
                 IN  /\ services[k].type = "s3"
                     /\ ~Contains(lbl, "private")
                     /\ ~Contains(lbl, "encrypted")})

\* The distinct security-relevant kinds among the services.
SecurityRelevantKinds(services) ==
  {services[k].type : k \in {j \in 1..Len(services) : services[j].security_relevant}}

\* The documented point model, in tenths: 8.0, less 0.5 a public node up to
\* 2.0, less 0.3 an unprotected storage node up to 1.5, plus 0.2 a distinct
\* security-relevant kind up to 1.0, clamped to 0..10.
PointModel(services) ==
  Max(0, Min(100, 80 - Min(20, 5 * PublicCount(services))
                     - Min(15, 3 * UnencryptedStorageCount(services))
                     + Min(10, 2 * Cardinality(SecurityRelevantKinds(services)))))

\* C17: for a graph of at least 3 components the score equals the point
\* model, whose bonus counts each security-relevant kind once.
C17_ScoreIsPointModel ==
  (Analyzed /\ Returned /\ Len(parsed.services) >= 3) =>
    results.score = PointModel(parsed.services)

\* C18: adding one further public-facing node, of any kind, to a graph of at
\* least 3 components never yields a higher score.
C18_PublicNodeNeverRaisesScore ==
  [][(ProcessorAnalyzeWithPublicNode /\ Len(parsed.services) >= 3)
       => results'.score <= results.score]_vars

\* C18 (amended): adding one further public-facing node whose kind is not
\* security relevant to a graph of at least 3 components never yields a
\* higher score.
C18_PlainPublicNodeNeverRaisesScore ==
  [][(/\ ProcessorAnalyzeWithPublicNode
      /\ Len(parsed.services) >= 3
      /\ ~parsed'.services[Len(parsed'.services)].security_relevant)
       => results'.score <= results.score]_vars

\* The diagram before its last shape was added.
WithoutLastNode(document) ==
  [document EXCEPT !.cells = SubSeq(document.cells, 1, Len(document.cells) - 1)]

\* A public load balancer was added to a graph of at least 3 components and
\* the score of the extended graph is lower than the score before.
C18_Witness ==
  /\ Analyzed
  /\ Returned
  /\ Len(parsed.services) >= 4
  /\ Len(parsed.services) = Len(doc.cells)
  /\ parsed.services[Len(parsed.services)].label = "Public Load Balancer"
  /\ ~parsed.services[Len(parsed.services)].security_relevant
  /\ results.score <
       create_fallback_analysis(DrawIOParser_parse(WithoutLastNode(doc))).score

\* ------------------------------------------------------------------------
\* Properties of the lightweight copies' fallback analyses (checked under
\* Spec)
\* ------------------------------------------------------------------------

\* seq is an initial part of whole.
IsPrefix(seq, whole) ==
  Len(seq) <= Len(whole) /\ seq = SubSeq(whole, 1, Len(seq))

\* The baseline items of a copy followed by the extras it generates for the
\* parsed components, in the order of generation.
GeneratedRecommendations ==
  IF program = "lightweight_handler"
  THEN HandlerBaseline \o HandlerExtras(ComponentTypes(parsed))
  ELSE ProcessorBaseline \o ProcessorExtras(ComponentTypes(parsed))

\* C12: the recommendations returned for a non-empty graph are at most 6
\* and are an initial part of the baseline items followed by the extras in
\* the order generated.
C12_RecommendationsTruncatedToSix ==
  (program \in {"lightweight_handler", "lightweight_processor"}
     /\ Analyzed /\ Len(Components(parsed)) > 0) =>
    /\ Len(results.recommendations) <= 6
    /\ IsPrefix(results.recommendations, GeneratedRecommendations)

\* The kinds of the components of a parse result, whichever copy produced
\* it.
KindsPresent(p) ==
  {IF "type" \in DOMAIN Components(p)[k]
   THEN Components(p)[k].type ELSE Components(p)[k].service_type :
     k \in 1..Len(Components(p))}

\* The finding that no identity service is shown.
HasMissingIamFinding(issues) == \E k \in 1..Len(issues) : issues[k].aws_service = "IAM"

\* C19: for a graph of at least 3 components the 'missing IAM' finding is
\* present exactly when the graph has no identity-kind node, whatever other
\* rules fire.
C19_MissingIamFindingIndependent ==
  (program \in {"processor", "lightweight_handler"}
     /\ Analyzed /\ Len(Components(parsed)) >= 3) =>
    (HasMissingIamFinding(results.issues)
       <=> KindsPresent(parsed) \cap {"iam", "IAM"} = {})

\* ------------------------------------------------------------------------
\* Properties of the narrator (checked under SpecDescribe)
\* ------------------------------------------------------------------------

Described == description # NotRun /\ parsed.status = "returned"

\* The sentences of a text, each ended by a full stop.
SentenceCount(text) == Count(text, ".")

\* The text holds none of the marks of a section: no bold title or heading,
\* no paragraph break, no counts, breakdown, flow or security text.
NoSection(text) ==
  /\ ~Contains(text, "**")
  /\ ~Contains(text, "\n\n")
  /\ ~Contains(text, "This architecture diagram contains")
  /\ ~Contains(text, "The architecture includes")

SecurityKinds ==
  {"iam", "waf", "kms", "secretsmanager", "cognito", "vpc", "cloudwatch"}

\* C14: for a graph with at least one component the description has a
\* security section iff a component has a kind of the security mapping;
\* with none of them the description says nothing on security.
C14_SecuritySectionIffSecurityKind ==
  (Described /\ Len(parsed.services) > 0) =>
    /\ Contains(description, "**Security Aspects:**")
         <=> (TypesPresent(parsed.services) \cap SecurityKinds # {})
    /\ (TypesPresent(parsed.services) \cap SecurityKinds = {})
         => ~Contains(Lower(description), "security")

C16_NoKeywordShadowed ==
  \A c \in StyleClassifiers :
    (style = "" /\ cls[c] # NotRun) =>
      \A kind \in ListedKinds(TableOf(c), label) : cls[c] = kind

\* The places in s where the separator of the parts, a blank line, starts.
Breaks(s) == {i \in 1..(Len(s) - 1) : SubSeq(s, i, i + 1) = "\n\n"}

\* The k-th part of s, the parts being separated by blank lines.
PartOf(s, k) ==
  LET breaks == Breaks(s)
      from == IF k = 1 THEN 1
              ELSE 2 + CHOOSE i \in breaks : Cardinality({j \in breaks : j < i}) = k - 2
      to == IF k = Cardinality(breaks) + 1 THEN Len(s)
            ELSE (CHOOSE i \in breaks : Cardinality({j \in breaks : j < i}) = k - 1) - 1
  IN  SubSeq(s, from, to)

\* s.split("\n\n")
Parts(s) == [k \in 1..(Cardinality(Breaks(s)) + 1) |-> PartOf(s, k)]

\* What each section starts with: title, summary counts, per-kind
\* breakdown, detected patterns, flow narrative, security highlights.
SectionMarkers(title) ==
  << "**" \o title \o "**",
     "This architecture diagram contains **",
     "The architecture includes: ",
     "**Architecture Patterns Detected:** ",
     "**Data Flow:** ",
     "**Security Aspects:** " >>

StartsWith(s, k) == Len(s) >= Len(k) /\ SubSeq(s, 1, Len(k)) = k

\* The section a part is, by what it starts with: 1 (title) to 6
\* (security highlights), 0 if it is none of them.
SectionOf(part, title) ==
  LET markers == SectionMarkers(title)
  IN  IF part = markers[1] THEN 1
      ELSE IF \E k \in 2..6 : StartsWith(part, markers[k])
      THEN CHOOSE k \in 2..6 : StartsWith(part, markers[k])
      ELSE 0

SummarySentence(components, connections) ==
  "This architecture diagram contains **" \o ToString(components)
    \o " AWS services** with **" \o ToString(connections)
    \o " connections** between components."

\* The sections of the description, in the order they appear.
SectionsOfDescription ==
  LET parts == Parts(description)
  IN  [k \in 1..Len(parts) |-> SectionOf(parts[k], parsed.diagram_info.title)]

\* C20: for a non-empty graph the sections present appear in the order
\* title, summary, breakdown, patterns, flow, security; the title section
\* is present iff the title is not "Unknown", the patterns section iff a
\* pattern matched, and the summary reports the numbers of components and
\* of connections of the graph.
C20_SectionsInFixedOrder ==
  (Described /\ Len(parsed.services) > 0) =>
    LET parts == Parts(description)
        sections == SectionsOfDescription
        present == {sections[k] : k \in 1..Len(sections)}
    IN  /\ \A k \in 1..Len(sections) : sections[k] \in 1..6
        /\ \A j, k \in 1..Len(sections) : j < k => sections[j] < sections[k]
        /\ (1 \in present) <=> (parsed.diagram_info.title # "Unknown")
        /\ {2, 3} \subseteq present
        /\ (4 \in present) <=>
             (Len(_identify_architecture_patterns(parsed.services, parsed.connections)) > 0)
        /\ \E k \in 1..Len(parts) :
             parts[k] = SummarySentence(Len(parsed.services), Len(parsed.connections))

\* A titled diagram of connected services was described, with all six
\* sections.
C20_Witness ==
  /\ Described
  /\ Len(parsed.services) >= 2
  /\ Len(parsed.connections) >= 1
  /\ parsed.diagram_info.title = "Web service tier"
  /\ SectionsOfDescription = <<1, 2, 3, 4, 5, 6>>

\* ------------------------------------------------------------------------
\* Properties of the narrated patterns and data flow (checked under
\* SpecNarrate)
\* ------------------------------------------------------------------------

\* The part of the description that is section k, without what the section
\* starts with; "" if the description has no such section.
SectionText(k) ==
  LET parts == Parts(description)
      title == parsed.diagram_info.title
      found == {j \in 1..Len(parts) : SectionOf(parts[j], title) = k}
  IN  IF found = {} THEN ""
      ELSE LET part == parts[CHOOSE j \in found : TRUE]
           IN  SubSeq(part, Len(SectionMarkers(title)[k]) + 1, Len(part))

\* The six pattern rules on the kinds of the parsed graph: the name of the
\* pattern and whether its rule holds.
PatternRules ==
  LET kinds == {parsed.services[k].type : k \in 1..Len(parsed.services)}
      functions == Cardinality({k \in 1..Len(parsed.services) :
                                  parsed.services[k].type = "lambda"})
  IN  << [name |-> "Load-balanced web application",
          holds |-> {"elb", "ec2"} \subseteq kinds],
         [name |-> "Serverless API",
          holds |-> {"lambda", "apigateway"} \subseteq kinds],
         [name |-> "Microservices architecture", holds |-> functions > 2],
         [name |-> "Event-driven processing",
          holds |-> kinds \cap {"kinesis", "sqs"} # {}],
         [name |-> "Content delivery network", holds |-> "cloudfront" \in kinds],
         [name |-> "Multi-tier data storage",
          holds |-> kinds \cap {"rds", "dynamodb", "elasticsearch", "redshift"} # {}] >>

\* C21: the patterns section reports every pattern whose rule holds and no
\* other, each rule on its own.
C21_PatternsExactlyTheRulesThatHold ==
  (Described /\ Len(parsed.services) > 0) =>
    LET reported == SectionText(4)
        holding == {k \in 1..6 : PatternRules[k].holds}
    IN  /\ \A k \in 1..6 : Contains(reported, PatternRules[k].name) <=> k \in holding
        /\ IF holding = {} THEN reported = ""
           ELSE Count(reported, ", ") + 1 = Cardinality(holding)

\* A diagram of three functions and an API gateway was described: two
\* rules hold at once, the others do not.
C21_Witness ==
  /\ Described
  /\ Len(parsed.services) = 4
  /\ PatternRules[2].holds /\ PatternRules[3].holds
  /\ ~PatternRules[1].holds /\ ~PatternRules[6].holds
  /\ SectionText(4) = "Serverless API, Microservices architecture"
\* The place of the first occurrence of k in s, 0 if there is none.
IndexOf(s, k) ==
  LET hits == {i \in 1..(Len(s) - Len(k) + 1) : SubSeq(s, i, i + Len(k) - 1) = k}
  IN  IF hits = {} THEN 0 ELSE CHOOSE i \in hits : \A j \in hits : i <= j

\* The connections of the parsed graph that end at, and that start from,
\* the component with this id.
EdgesInto(id) ==
  Cardinality({k \in 1..Len(parsed.connections) : parsed.connections[k].target = id})

EdgesOutOf(id) ==
  Cardinality({k \in 1..Len(parsed.connections) : parsed.connections[k].source = id})

\* The display names of the components with no incoming and some outgoing
\* connection, and of those with some incoming and no outgoing connection.
EntryKindNames ==
  {_get_service_display_name(parsed.services[k].type) :
     k \in {j \in 1..Len(parsed.services) :
              EdgesInto(parsed.services[j].id) = 0 /\ EdgesOutOf(parsed.services[j].id) > 0}}

EndpointKindNames ==
  {_get_service_display_name(parsed.services[k].type) :
     k \in {j \in 1..Len(parsed.services) :
              EdgesInto(parsed.services[j].id) > 0 /\ EdgesOutOf(parsed.services[j].id) = 0}}

AllKindNames ==
  {_get_service_display_name(parsed.services[k].type) : k \in 1..Len(parsed.services)}

\* The two clauses of a flow narrative: what it says enters, and what it
\* says the traffic flows to ("" for a clause it does not have).
EntryClause(flow) ==
  IF ~StartsWith(flow, "Traffic enters through ") THEN ""
  ELSE LET at == IndexOf(flow, " and flows to ")
       IN  IF at = 0 THEN flow ELSE SubSeq(flow, 1, at)

EndpointClause(flow) ==
  LET at == IndexOf(flow, "and flows to ")
  IN  IF at = 0 THEN "" ELSE SubSeq(flow, at, Len(flow))

C28_TextScoreWithinBounds ==
  (results # NoResults /\ pc = "parse_response") =>
    (0 <= results.overall_score /\ results.overall_score <= 1000)

\* ------------------------------------------------------------------------
\* Properties of the upload handler and its remote call (checked under
\* SpecUpload and SpecUploadFair)
\* ------------------------------------------------------------------------

\* call_bedrock_agent has returned to handle_file_upload.
AgentCallReturned == invocations # <<>> /\ pc \in {"put_item", "except", "done"}

\* The value call_bedrock_agent returned is one of its result dictionaries.
IsResultDictionary(value) ==
  \/ "overall_score" \in DOMAIN value
  \/ ("analysis_type" \in DOMAIN value /\ value.analysis_type = "enterprise")

\* The agent was invoked at most max_retries + 1 times; before every
\* invocation but the first the backoff delay of the attempt before it was
\* slept (base_delay * 2^attempt seconds plus at most one second); nothing is
\* slept after the last invocation; the call never leaves by an exception
\* and what it returned is a result dictionary.
RemoteCallBounded ==
  /\ Len(invocations) <= max_retries + 1
  /\ \A k \in 2..Len(invocations) :
       /\ k - 1 <= Len(sleeps)
       /\ sleeps[k - 1] >= base_delay * 10 * (2 ^ (k - 2))
       /\ sleeps[k - 1] <= base_delay * 10 * (2 ^ (k - 2)) + 10
  /\ Len(sleeps) <= Len(invocations)
  /\ AgentCallReturned => Len(sleeps) = Len(invocations) - 1
  /\ pc = "except" => response.e \in {"put_object", "put_item"}
  /\ AgentCallReturned => IsResultDictionary(results)

\* C23: for every sequence of remote outcomes call_bedrock_agent invokes the
\* agent at most max_retries + 1 = 2 times, sleeps the backoff delay before
\* each retry, and ends by returning a result dictionary: it never raises
\* and never goes round the loop again after the last attempt.
C23_RemoteCallBoundedAndReturns ==
  /\ []RemoteCallBounded
  /\ (pc = "call_bedrock_agent") ~> AgentCallReturned

\* Both attempts were throttled: one sleep of 20 to 21 seconds lies between
\* them and the throttling response was stored.
C23_Witness ==
  /\ pc = "done"
  /\ Len(invocations) = 2
  /\ invocations[2].raised
  /\ Len(sleeps) = 1
  /\ "error_type" \in DOMAIN results /\ results.error_type = "THROTTLING"
  /\ record = "completed"

\* The message of an exception names throttling, permission.
NamesThrottling(message) ==
  \E word \in {"throttling", "rate", "quota"} : Contains(Lower(message), word)

NamesPermission(message) ==
  \E word \in {"access", "authorization", "permission"} : Contains(Lower(message), word)

\* The last outcome of invoke_agent.
LastOutcome == invocations[Len(invocations)]

\* C25: only an exception whose message names throttling is followed by
\* another invocation; an exception that names permission and not throttling
\* returns the permission response, any other that does not name throttling
\* returns the fallback response, each on the attempt it happened in; a
\* message that names both is handled as throttling.
C25_OnlyThrottlingIsRetried ==
  /\ \A k \in 1..(Len(invocations) - 1) :
       invocations[k].raised /\ NamesThrottling(invocations[k].text)
  /\ (AgentCallReturned /\ LastOutcome.raised) =>
       IF NamesThrottling(LastOutcome.text)
       THEN /\ Len(invocations) = max_retries + 1
            /\ results = create_throttling_analysis_response(parsed, LastOutcome.text)
       ELSE IF NamesPermission(LastOutcome.text)
            THEN results = create_permission_analysis_response(parsed, LastOutcome.text)
            ELSE /\ "fallback_reason" \in DOMAIN results
                 /\ results.fallback_reason = LastOutcome.text
  /\ (pc = "call_bedrock_agent" /\ invocations # <<>>) =>
       (LastOutcome.raised /\ NamesThrottling(LastOutcome.text))

\* A message naming both access and quota was retried, and the permission
\* error of the retry returned the permission response at once.
C25_Witness ==
  /\ AgentCallReturned
  /\ Len(invocations) = 2
  /\ NamesThrottling(invocations[1].text) /\ NamesPermission(invocations[1].text)
  /\ NamesPermission(invocations[2].text) /\ ~NamesThrottling(invocations[2].text)
  /\ "error_type" \in DOMAIN results /\ results.error_type = "PERMISSION"

\* What the upload handler leaves behind for each answer but 500.
UploadEffects ==
  /\ response.statusCode = 400 =>
       (allocated = 0 /\ stored = 0 /\ writes = <<>> /\ record = "none")
  /\ (program = "lightweight_handler" /\ pc # "validate"
        /\ response.statusCode # 400) => allocated = 1
  /\ response.statusCode = 200 =>
       (record = "completed" /\ writes = <<"completed">>)

AiOutput == invocations[1].value

\* A score of the AI output is usable: absent, a number from 0 to 10, or a
\* string that is written as such a number.
UsableScore(v) ==
  \/ v = Absent
  \/ v.kind = "float" /\ v.value >= 0 /\ v.value <= 1000
  \/ v \in {PyStr("8.5")}

\* The issues of the AI output whose severity is one of HIGH, MEDIUM, LOW
\* or absent, in their order.
KeptIssues ==
  LET issues == AiOutput.issues
      kept == {i \in 1..Len(issues) :
                 \/ issues[i].severity = Absent
                 \/ issues[i].severity \in {PyStr("HIGH"), PyStr("MEDIUM"), PyStr("LOW")}}
  IN  [k \in 1..Cardinality(kept) |->
         LET i == CHOOSE i \in kept : Cardinality({j \in kept : j <= i}) = k
         IN  [severity |-> IF issues[i].severity = Absent THEN "MEDIUM"
                           ELSE issues[i].severity.text,
              component |-> issues[i].component]]

\* C29: process_ai_results returns results whose two scores are between 0
\* and 10; when both scores of the AI output are usable, every issue with
\* a valid severity is kept and every other issue is dropped; when a score
\* is out of range or no number, the result is the fallback: both scores
\* 5.0 and the single MEDIUM issue of the 'Analysis System'.
C29_ResultsAlwaysWithinBounds ==
  pc = "update_analysis_status" =>
    /\ results.overall_score >= 0 /\ results.overall_score <= 1000
    /\ results.security.score >= 0 /\ results.security.score <= 1000
    /\ IF /\ AiOutput.kind = "dict"
          /\ UsableScore(AiOutput.overall_score)
          /\ UsableScore(AiOutput.security_score)
       THEN results.security.issues = KeptIssues
       ELSE /\ results.overall_score = 500
            /\ results.security.score = 500
            /\ Len(results.security.issues) = 1
            /\ results.security.issues[1].severity = "MEDIUM"
            /\ results.security.issues[1].component = "Analysis System"

\* An AI output with an overall score of 10.5 and three issues, one of
\* them of severity CRITICAL, was made into the fallback results.
C29_Witness ==
  /\ pc = "update_analysis_status"
  /\ AiOutput.kind = "dict"
  /\ AiOutput.overall_score = PyFloat(1050)
  /\ AiOutput.security_score = PyFloat(750)
  /\ Len(AiOutput.issues) = 3
  /\ results = FallbackResults

\* An AI output with usable scores and three issues, one of them of
\* severity CRITICAL, kept the two other issues.
C29_WitnessIssueDropped ==
  /\ pc = "update_analysis_status"
  /\ AiOutput.kind = "dict"
  /\ AiOutput.overall_score = PyStr("8.5")
  /\ Len(AiOutput.issues) = 3
  /\ results.overall_score = 850
  /\ Len(results.security.issues) = 2

\* ------------------------------------------------------------------------
\* Properties of the background processors (checked under SpecProcess)
\* ------------------------------------------------------------------------

\* The remote AI call of the run failed: the last remote invocation raised
\* (for processor.py the direct model, after the agent).
RemoteCallFailed == invocations # <<>> /\ invocations[Len(invocations)].raised

\* The run ended on the failure of a step other than the remote call.
EndedOnOtherFailure ==
  response.statusCode = 500 /\ response.error # AiAnalysisFailed

\* The results are those of the rule-based fallback of the program.
CarriesFallback ==
  IF program = "processor" THEN results = create_fallback_analysis(parsed)
  ELSE results = LightweightProcessor_create_fallback_analysis(parsed)

\* C24: when the remote AI call has failed, the run ends with the record
\* in status 'completed' carrying the rule-based fallback results, unless a
\* step other than the remote call failed; the failure of the remote call
\* alone never ends the run with the record in status 'failed'.
C24_RemoteFailureEndsCompletedWithFallback ==
  (pc = "done" /\ RemoteCallFailed /\ ~EndedOnOtherFailure) =>
    (record = "completed" /\ CarriesFallback)

\* C26: a run that has set the record to 'processing' returns with the
\* record in the status that agrees with what it returns: 'completed' with
\* 200, 'failed' with 500, and never 'processing'.
C26_RecordAgreesWithReturn ==
  (pc = "done" /\ "processing" \in {writes[i] : i \in 1..Len(writes)}
     /\ record # "pending") =>
    /\ record # "processing"
    /\ response.statusCode = 200 => record = "completed"
    /\ response.statusCode = 500 => record = "failed"

\* ------------------------------------------------------------------------
\* Properties of POST /api/analyze (checked under SpecApi)
\* ------------------------------------------------------------------------

\* C27: when POST /api/analyze answers 'pending' with 'Analysis started
\* successfully', the file was uploaded, the record was saved with status
\* 'pending' before the processor was invoked, the invocation was accepted,
\* and the stored record is not 'failed'.
C27_PendingAnswerMeansStarted ==
  response = AnalysisStarted =>
    /\ stored = 1
    /\ writes # <<>> /\ writes[1] = "pending"
    /\ invocations # <<>> /\ ~invocations[Len(invocations)].raised
    /\ record # "failed"

====
